---------------------------- MODULE Spec2Model ----------------------------
(***************************************************************************)
(* Verification model of the alpha-lab trading-strategy scripts.           *)
(*                                                                         *)
(* Each strategy script is an independent algorithm object driven by the   *)
(* host engine's callbacks, so each has its own group of variables, its    *)
(* own actions and its own specification (SpecSMA, SpecDispersion, ...).   *)
(* A specification steps only its own strategy; the variables of the other *)
(* strategies stay at their constructed values.                            *)
(*                                                                         *)
(* Conventions                                                             *)
(*  - Python None is the empty tuple <<>>, a present value v is <<v>>.     *)
(*  - A Python dict is a TLA+ function; `k in d` is k \in DOMAIN d.        *)
(*  - Real numbers are exact scaled integers or exact rationals            *)
(*    <<numerator, denominator>>; the unit is stated at each definition.   *)
(*  - The host engine (portfolio, order fills, indicator values, the data  *)
(*    slice) is the environment: what a handler reads from it is an input  *)
(*    of the action, drawn from a small set; orders fill immediately.      *)
(*  - x_calls is the list of order calls the most recent callback of       *)
(*    strategy x made on the host.                                         *)
(***************************************************************************)
EXTENDS Integers, Sequences, FiniteSets, TLC

VARIABLES
    \* ---- test-sma/main.py : SMACrossoverAlgorithm
    sma_warm,           \* self.is_warming_up
    sma_fast_ready,     \* self.fast_sma.is_ready
    sma_slow_ready,     \* self.slow_sma.is_ready
    sma_previous_fast,  \* self._previous_fast
    sma_previous_slow,  \* self._previous_slow
    sma_invested,       \* self.portfolio.invested
    sma_calls,          \* order calls of the last on_data
    sma_bars,           \* log: one record per on_data call that got past both guards
    \* ---- implied-correlation-dispersion/main.py : ImpliedCorrelationDispersion
    icd_warm,           \* self.IsWarmingUp
    icd_price_len,      \* len(self.price_history[sym]), the same for every symbol
    icd_return_len,     \* len(self.return_history[sym]), the same for every symbol
    icd_spread_len,     \* len(self.corr_spread_history)
    icd_current_signal, \* self.current_signal, in hundredths
    icd_position_type,  \* self.position_type
    icd_peak_value,     \* self.peak_value
    icd_weights,        \* host portfolio: target weight held per symbol, in basis points
    icd_next,           \* host scheduler: the next scheduled callback of the day
    icd_exec_signal,    \* log: how the last ExecuteDispersionTrade found current_signal
    icd_calls,          \* order calls of the last callback
    \* ---- entropy-regime-detector/main.py : CalculatePermutationEntropy, called alone
    pe_prices,          \* the argument
    pe_result,          \* <<>> or <<[value |-> what the call returned]>>
    \* ---- fractal-dimension-breakout/main.py : CalculateHurstExponent, called alone
    hurst_prices,       \* the argument
    hurst_result,       \* <<>> or <<[value |-> what the call returned, slope |-> the fit]>>
    \* ---- vpin-toxicity-detector/main.py : VPINToxicityDetector
    vpin_warm,               \* self.IsWarmingUp
    vpin_time,               \* self.Time
    vpin_price_history,      \* self.price_history
    vpin_current_bucket,     \* self.current_bucket
    vpin_bucket_history,     \* self.bucket_history
    vpin_history,            \* self.vpin_history
    vpin_toxicity_state,     \* self.toxicity_state
    vpin_toxicity_direction, \* self.toxicity_direction
    vpin_entry_prices,       \* self.entry_prices
    vpin_entry_vpin,         \* self.entry_vpin
    vpin_stop_losses,        \* self.stop_losses
    vpin_last_signal_time,   \* self.last_signal_time
    vpin_quantity,           \* host portfolio: self.Portfolio[symbol].Quantity
    vpin_bars,               \* host: the number of slices delivered after warm-up
    vpin_appended,           \* log: the appends to vpin_history made by the last OnData
    vpin_exits,              \* log: the positions the last OnData closed, and why
    vpin_calls,              \* order calls of the last callback
    vpin_entered,            \* log: the symbol and self.Time of each EnterLong call
    \* ---- sector-rotation-velocity/main.py : SectorRotationVelocity
    srv_warm,            \* self.IsWarmingUp
    srv_time,            \* self.Time
    srv_price_len,       \* len(self.price_history[sym]), the same for every symbol
    srv_rs_len,          \* len(self.rs_history[ticker]), the same for every sector
    srv_vel_len,         \* len(self.rs_velocity[ticker]), the same for every sector
    srv_level,           \* the last element of self.rs_history[ticker], if any
    srv_velocity,        \* the last element of self.rs_velocity[ticker], if any
    srv_acceleration,    \* self.rs_acceleration
    srv_rankings,        \* self.sector_rankings
    srv_last_rebalance,  \* self.last_rebalance
    srv_peak_value,      \* self.peak_value
    srv_entry_prices,    \* self.entry_prices
    srv_invested,        \* host portfolio: self.Portfolio[sym].Invested
    srv_calls,           \* order calls of the last callback
    srv_passed,          \* log: self.Time of each RebalancePortfolio past the frequency check
    \* ---- entropy-regime-detector/main.py : EntropyRegimeDetector
    erd_warm,               \* self.IsWarmingUp
    erd_active,             \* the symbol the host delivers bars for after the warm-up
    erd_bars,               \* OnData calls outside warm-up so far
    erd_price_buffer,       \* self.price_buffer
    erd_entropy_history,    \* self.entropy_history
    erd_current_regime,     \* self.current_regime
    erd_regime_confidence,  \* self.regime_confidence
    erd_entry_prices,       \* self.entry_prices
    erd_stop_losses,        \* self.stop_losses
    erd_quantity,           \* host portfolio: self.Portfolio[symbol].Quantity
    erd_calls,              \* order calls of the last callback
    erd_received,           \* log: the closes OnData received outside warm-up, by symbol
    erd_readings,           \* log: the entropy readings AnalyzeRegimes appended, by symbol
    erd_signals,            \* log: the signals of the last AnalyzeRegimes
    erd_buys,               \* log: the BUYs the last ExecuteSignals executed
    \* ---- basic_sma.py : BasicSMACrossover
    bsma_warm,        \* self.is_warming_up
    bsma_fast_ready,  \* self.fast_sma.is_ready
    bsma_slow_ready,  \* self.slow_sma.is_ready
    bsma_holdings,    \* host portfolio: self.portfolio[self.spy].quantity
    bsma_calls,       \* order calls of the last on_data
    bsma_bars,        \* log: one record per on_data call made with both indicators ready
    \* ---- fractal-dimension-breakout/main.py : FractalDimensionBreakout
    fdb_warm,               \* self.IsWarmingUp
    fdb_active,             \* host: the symbol whose bars arrive after the warm-up
    fdb_bars,               \* host: the number of slices delivered after the warm-up
    fdb_price_buffer,       \* self.price_buffer
    fdb_hurst_history,      \* self.hurst_history, in hundredths
    fdb_volatility,         \* self.volatility
    fdb_breakout_high,      \* self.breakout_high
    fdb_breakout_low,       \* self.breakout_low; <<>> is float('inf')
    fdb_entry_prices,       \* self.entry_prices
    fdb_entry_hurst,        \* self.entry_hurst, in hundredths
    fdb_expected_duration,  \* self.expected_duration
    fdb_bars_held,          \* self.bars_held
    fdb_quantity,           \* host portfolio: self.Portfolio[symbol].Quantity
    fdb_calls,              \* order calls of the last callback
    fdb_entered             \* log: the EnterPosition calls of the last OnData

smaVars == <<sma_warm, sma_fast_ready, sma_slow_ready, sma_previous_fast,
             sma_previous_slow, sma_invested, sma_calls, sma_bars>>

icdVars == <<icd_warm, icd_price_len, icd_return_len, icd_spread_len,
             icd_current_signal, icd_position_type, icd_peak_value, icd_weights,
             icd_next, icd_exec_signal, icd_calls>>

peVars == <<pe_prices, pe_result>>

hurstVars == <<hurst_prices, hurst_result>>

vpinVars == <<vpin_warm, vpin_time, vpin_price_history, vpin_current_bucket,
              vpin_bucket_history, vpin_history, vpin_toxicity_state,
              vpin_toxicity_direction, vpin_entry_prices, vpin_entry_vpin,
              vpin_stop_losses, vpin_last_signal_time, vpin_quantity, vpin_bars,
              vpin_appended, vpin_exits, vpin_calls, vpin_entered>>

srvVars == <<srv_warm, srv_time, srv_price_len, srv_rs_len, srv_vel_len, srv_level,
             srv_velocity, srv_acceleration, srv_rankings, srv_last_rebalance,
             srv_peak_value, srv_entry_prices, srv_invested, srv_calls, srv_passed>>

erdVars == <<erd_warm, erd_active, erd_bars, erd_price_buffer,
             erd_entropy_history, erd_current_regime, erd_regime_confidence,
             erd_entry_prices, erd_stop_losses, erd_quantity, erd_calls,
             erd_received, erd_readings, erd_signals, erd_buys>>

bsmaVars == <<bsma_warm, bsma_fast_ready, bsma_slow_ready, bsma_holdings, bsma_calls,
              bsma_bars>>

fdbVars == <<fdb_warm, fdb_active, fdb_bars, fdb_price_buffer, fdb_hurst_history,
             fdb_volatility, fdb_breakout_high, fdb_breakout_low, fdb_entry_prices,
             fdb_entry_hurst, fdb_expected_duration, fdb_bars_held, fdb_quantity,
             fdb_calls, fdb_entered>>

vars == <<smaVars, icdVars, peVars, hurstVars, vpinVars, srvVars, erdVars, bsmaVars, fdbVars>>

\* What each strategy's actions leave alone: the other strategies.
smaOthers == <<icdVars, peVars, hurstVars, vpinVars, srvVars, erdVars, bsmaVars, fdbVars>>
icdOthers == <<smaVars, peVars, hurstVars, vpinVars, srvVars, erdVars, bsmaVars, fdbVars>>
peOthers == <<smaVars, icdVars, hurstVars, vpinVars, srvVars, erdVars, bsmaVars, fdbVars>>
hurstOthers == <<smaVars, icdVars, peVars, vpinVars, srvVars, erdVars, bsmaVars, fdbVars>>
vpinOthers == <<smaVars, icdVars, peVars, hurstVars, srvVars, erdVars, bsmaVars, fdbVars>>
srvOthers == <<smaVars, icdVars, peVars, hurstVars, vpinVars, erdVars, bsmaVars, fdbVars>>
erdOthers == <<smaVars, icdVars, peVars, hurstVars, vpinVars, srvVars, bsmaVars, fdbVars>>
bsmaOthers == <<smaVars, icdVars, peVars, hurstVars, vpinVars, srvVars, erdVars, fdbVars>>
fdbOthers == <<smaVars, icdVars, peVars, hurstVars, vpinVars, srvVars, erdVars, bsmaVars>>

-----------------------------------------------------------------------------
(* Shared helpers *)

None == <<>>
Some(v) == <<v>>
Val(o) == o[1]

Min(a, b) == IF a <= b THEN a ELSE b
Max(a, b) == IF a >= b THEN a ELSE b
Abs(a) == IF a < 0 THEN -a ELSE a

-----------------------------------------------------------------------------
(***************************************************************************)
(* test-sma/main.py : SMACrossoverAlgorithm                                *)
(* The two SMA indicators belong to the host; on_data reads their current  *)
(* values, which are inputs here.                                          *)
(***************************************************************************)

\* Bounds of the SMA model
MaxSmaVal == 2
MaxSmaBars == 4

SmaVals == 1..MaxSmaVal

SMA_initialize ==
    /\ sma_warm = TRUE
    /\ sma_fast_ready = FALSE
    /\ sma_slow_ready = FALSE
    /\ sma_previous_fast = None
    /\ sma_previous_slow = None
    /\ sma_invested = FALSE
    /\ sma_calls = <<>>
    /\ sma_bars = <<>>

\* Host: the warm-up period ends.
SMA_EndWarmUp ==
    /\ sma_warm
    /\ sma_warm' = FALSE
    /\ UNCHANGED <<sma_fast_ready, sma_slow_ready, sma_previous_fast,
                   sma_previous_slow, sma_invested, sma_calls, sma_bars>>
    /\ UNCHANGED smaOthers

\* Host: the 10-period SMA has its samples.
SMA_FastReady ==
    /\ ~sma_fast_ready
    /\ sma_fast_ready' = TRUE
    /\ UNCHANGED <<sma_warm, sma_slow_ready, sma_previous_fast,
                   sma_previous_slow, sma_invested, sma_calls, sma_bars>>
    /\ UNCHANGED smaOthers

\* Host: the 30-period SMA has its samples (after the 10-period one).
SMA_SlowReady ==
    /\ sma_fast_ready
    /\ ~sma_slow_ready
    /\ sma_slow_ready' = TRUE
    /\ UNCHANGED <<sma_warm, sma_fast_ready, sma_previous_fast,
                   sma_previous_slow, sma_invested, sma_calls, sma_bars>>
    /\ UNCHANGED smaOthers

\* The crossover tests of on_data (lines 46-57): the order the call places.
\* Mutant: a bullish crossover that needs the fast SMA strictly below before.
SMA_BullishCross_Strict(pf, ps, fast_value, slow_value) ==
    pf < ps /\ fast_value > slow_value

SMA_BullishCross(pf, ps, fast_value, slow_value) ==
    pf <= ps /\ fast_value > slow_value

SMA_BearishCross(pf, ps, fast_value, slow_value) ==
    pf >= ps /\ fast_value < slow_value

SMA_Order(fast_value, slow_value) ==
    IF sma_previous_fast # None /\ sma_previous_slow # None
    THEN IF SMA_BullishCross(Val(sma_previous_fast), Val(sma_previous_slow),
                             fast_value, slow_value)
         THEN IF ~sma_invested THEN <<"set_holdings">> ELSE <<>>
         ELSE IF SMA_BearishCross(Val(sma_previous_fast), Val(sma_previous_slow),
                                  fast_value, slow_value)
              THEN IF sma_invested THEN <<"liquidate">> ELSE <<>>
              ELSE <<>>
    ELSE <<>>

\* on_data(data) with the indicators showing fast_value and slow_value.
SMA_on_data(fast_value, slow_value) ==
    /\ UNCHANGED smaOthers
    /\ IF sma_warm \/ ~sma_fast_ready \/ ~sma_slow_ready
       THEN /\ sma_calls' = <<>>
            /\ UNCHANGED <<sma_warm, sma_fast_ready, sma_slow_ready, sma_previous_fast,
                           sma_previous_slow, sma_invested, sma_bars>>
       ELSE /\ Len(sma_bars) < MaxSmaBars
            /\ LET order == SMA_Order(fast_value, slow_value) IN
               /\ sma_calls' = order
               /\ sma_invested' = IF order = <<"set_holdings">> THEN TRUE
                                  ELSE IF order = <<"liquidate">> THEN FALSE
                                  ELSE sma_invested
               /\ sma_bars' = Append(sma_bars, [fast |-> fast_value, slow |-> slow_value,
                                                invested |-> sma_invested, calls |-> order])
            /\ sma_previous_fast' = Some(fast_value)
            /\ sma_previous_slow' = Some(slow_value)
            /\ UNCHANGED <<sma_warm, sma_fast_ready, sma_slow_ready>>

SMA_OnDataStep == \E f \in SmaVals, s \in SmaVals : SMA_on_data(f, s)

NextSMA ==
    \/ SMA_EndWarmUp
    \/ SMA_FastReady
    \/ SMA_SlowReady
    \/ SMA_OnDataStep

-----------------------------------------------------------------------------
(***************************************************************************)
(* implied-correlation-dispersion/main.py : ImpliedCorrelationDispersion   *)
(*                                                                         *)
(* Units: current_signal in hundredths (100 is 1.0); weights in basis      *)
(* points of the portfolio (10000 is 1.0); portfolio value in dollars.     *)
(* The correlation statistics of CalculateCorrelations are numpy floats    *)
(* over the return deques; what they yield (whether any pairwise           *)
(* correlation is a number, and the clipped z-score) is an input of the    *)
(* action.  The deques are tracked by their length, up to the largest      *)
(* value a guard compares it with; every bar carries every symbol.         *)
(***************************************************************************)

ICD_SectorSeq == <<"XLK", "XLF", "XLE", "XLV", "XLI", "XLC", "XLY", "XLP">>
ICD_Sectors == {ICD_SectorSeq[i] : i \in 1..Len(ICD_SectorSeq)}
ICD_spy == "SPY"
ICD_Symbols == ICD_Sectors \cup {ICD_spy}

ICD_corr_lookback == 20
ICD_spread_window == 60
ICD_min_sectors == 5
ICD_min_signal == 30
ICD_zscore_threshold == 150
ICD_max_sector_weight == 1000
ICD_max_spy_weight == 4000
ICD_max_drawdown == 12
ICD_cash == 100000

\* Inputs: clip(zscore / 2, -1, 1) in hundredths, and TotalPortfolioValue.
ICD_SignalGrid == {-100, -80, -75, -30, 0, 20, 75, 80, 100}
ICD_ValueLevels == {85000, 100000, 110000}

ICD_Initialize ==
    /\ icd_warm = TRUE
    /\ icd_price_len = 0
    /\ icd_return_len = 0
    /\ icd_spread_len = 0
    /\ icd_current_signal = 0
    /\ icd_position_type = "FLAT"
    /\ icd_peak_value = ICD_cash
    /\ icd_weights = [sym \in ICD_Symbols |-> 0]
    /\ icd_next = "CalculateCorrelations"
    /\ icd_exec_signal = "none"
    /\ icd_calls = [by |-> "Initialize", orders |-> <<>>]

\* Host order calls.
ICD_SetHoldingsCall(sym, w) == [op |-> "SetHoldings", symbol |-> sym, weight |-> w]
ICD_LiquidateAll == [op |-> "Liquidate", symbol |-> "*", weight |-> 0]

\* Host: the warm-up period ends.
ICD_EndWarmUp ==
    /\ icd_warm
    /\ icd_warm' = FALSE
    /\ UNCHANGED <<icd_price_len, icd_return_len, icd_spread_len, icd_current_signal,
                   icd_position_type, icd_peak_value, icd_weights, icd_next,
                   icd_exec_signal, icd_calls>>
    /\ UNCHANGED icdOthers

\* drawdown > max_drawdown, with drawdown = (peak - current) / peak
ICD_DrawdownHit(peak, current_value) ==
    (peak - current_value) * 100 > ICD_max_drawdown * peak

\* OnData(data), the portfolio being worth current_value.
ICD_OnData(current_value) ==
    /\ UNCHANGED icdOthers
    /\ UNCHANGED <<icd_warm, icd_spread_len, icd_current_signal, icd_next, icd_exec_signal>>
    /\ IF icd_warm
       THEN /\ icd_calls' = [by |-> "OnData", orders |-> <<>>]
            /\ UNCHANGED <<icd_price_len, icd_return_len, icd_position_type,
                           icd_peak_value, icd_weights>>
       ELSE LET peak == Max(icd_peak_value, current_value) IN
            /\ icd_return_len' = IF icd_price_len > 0
                                 THEN Min(icd_return_len + 1, ICD_corr_lookback)
                                 ELSE icd_return_len
            /\ icd_price_len' = Min(icd_price_len + 1, 1)
            /\ icd_peak_value' = peak
            /\ IF ICD_DrawdownHit(peak, current_value)
               THEN /\ icd_weights' = [sym \in ICD_Symbols |-> 0]
                    /\ icd_position_type' = "FLAT"
                    /\ icd_calls' = [by |-> "OnData", orders |-> <<ICD_LiquidateAll>>]
               ELSE /\ icd_calls' = [by |-> "OnData", orders |-> <<>>]
                    /\ UNCHANGED <<icd_weights, icd_position_type>>

ICD_OnDataStep == \E v \in ICD_ValueLevels : ICD_OnData(v)

\* CalculateCorrelations(): any_corr says some pairwise correlation is a
\* number, signal is clip(zscore / 2, -1, 1) (0 when std_spread <= 0.01).
ICD_CalculateCorrelations(any_corr, signal) ==
    /\ icd_next = "CalculateCorrelations"
    /\ icd_next' = "ExecuteDispersionTrade"
    /\ icd_calls' = [by |-> "CalculateCorrelations", orders |-> <<>>]
    /\ UNCHANGED <<icd_warm, icd_price_len, icd_return_len, icd_position_type,
                   icd_peak_value, icd_weights, icd_exec_signal>>
    /\ UNCHANGED icdOthers
    /\ LET n_ready == IF icd_return_len >= ICD_corr_lookback
                      THEN Cardinality(ICD_Sectors) ELSE 0
       IN IF \/ n_ready < ICD_min_sectors
             \/ icd_return_len < ICD_corr_lookback
             \/ ~any_corr
          THEN UNCHANGED <<icd_spread_len, icd_current_signal>>
          ELSE /\ icd_spread_len' = Min(icd_spread_len + 1, ICD_spread_window)
               /\ icd_current_signal' = IF icd_spread_len' >= ICD_spread_window
                                        THEN signal ELSE 0

ICD_CalculateStep ==
    \E any_corr \in BOOLEAN, signal \in ICD_SignalGrid :
        ICD_CalculateCorrelations(any_corr, signal)

\* The position type ExecuteDispersionTrade leaves (lines 228-240).
ICD_TradeDirection(signal, position_type) ==
    IF Abs(signal) < ICD_min_signal THEN position_type
    ELSE IF 2 * signal > ICD_zscore_threshold THEN "DISPERSION_LONG"
    ELSE IF 2 * signal < -ICD_zscore_threshold THEN "DISPERSION_SHORT"
    ELSE position_type

ICD_ExecuteDispersionTrade ==
    /\ icd_next = "ExecuteDispersionTrade"
    /\ icd_next' = "RebalancePortfolio"
    /\ icd_calls' = [by |-> "ExecuteDispersionTrade", orders |-> <<>>]
    /\ icd_exec_signal' = IF 2 * icd_current_signal > ICD_zscore_threshold THEN "high"
                          ELSE IF 2 * icd_current_signal < -ICD_zscore_threshold THEN "low"
                          ELSE "none"
    /\ icd_position_type' = IF icd_warm THEN icd_position_type
                            ELSE ICD_TradeDirection(icd_current_signal, icd_position_type)
    /\ UNCHANGED <<icd_warm, icd_price_len, icd_return_len, icd_spread_len,
                   icd_current_signal, icd_peak_value, icd_weights>>
    /\ UNCHANGED icdOthers

\* Target weights of RebalancePortfolio (lines 249-267), signal_strength in
\* hundredths: max_sector_weight * s, -max_spy_weight * s * 0.8, and
\* max_spy_weight * s, -max_sector_weight * s * 0.5.
\* Mutant: the SPY hedge of the long-dispersion leg without its minus sign.
ICD_LongWeights_Unhedged(signal_strength) ==
    [sector |-> (ICD_max_sector_weight * signal_strength) \div 100,
     spy    |-> (ICD_max_spy_weight * signal_strength * 8) \div 1000]

ICD_LongWeights(signal_strength) ==
    [sector |-> (ICD_max_sector_weight * signal_strength) \div 100,
     spy    |-> -((ICD_max_spy_weight * signal_strength * 8) \div 1000)]

ICD_ShortWeights(signal_strength) ==
    [sector |-> -((ICD_max_sector_weight * signal_strength * 5) \div 1000),
     spy    |-> (ICD_max_spy_weight * signal_strength) \div 100]

ICD_SectorOrders(w) ==
    [i \in 1..Len(ICD_SectorSeq) |-> ICD_SetHoldingsCall(ICD_SectorSeq[i], w)]

ICD_RebalancePortfolio ==
    /\ icd_next = "RebalancePortfolio"
    /\ icd_next' = "CalculateCorrelations"
    /\ UNCHANGED <<icd_warm, icd_price_len, icd_return_len, icd_spread_len,
                   icd_current_signal, icd_position_type, icd_peak_value, icd_exec_signal>>
    /\ UNCHANGED icdOthers
    /\ LET signal_strength == Abs(icd_current_signal) IN
       IF icd_warm
       THEN /\ icd_calls' = [by |-> "RebalancePortfolio", orders |-> <<>>]
            /\ UNCHANGED icd_weights
       ELSE IF icd_position_type = "DISPERSION_LONG"
       THEN LET w == ICD_LongWeights(signal_strength) IN
            /\ icd_calls' = [by |-> "RebalancePortfolio",
                             orders |-> Append(ICD_SectorOrders(w.sector),
                                               ICD_SetHoldingsCall(ICD_spy, w.spy))]
            /\ icd_weights' = [sym \in ICD_Symbols |->
                                  IF sym = ICD_spy THEN w.spy ELSE w.sector]
       ELSE IF icd_position_type = "DISPERSION_SHORT"
       THEN LET w == ICD_ShortWeights(signal_strength) IN
            /\ icd_calls' = [by |-> "RebalancePortfolio",
                             orders |-> <<ICD_SetHoldingsCall(ICD_spy, w.spy)>>
                                        \o ICD_SectorOrders(w.sector)]
            /\ icd_weights' = [sym \in ICD_Symbols |->
                                  IF sym = ICD_spy THEN w.spy ELSE w.sector]
       ELSE /\ icd_calls' = [by |-> "RebalancePortfolio", orders |-> <<ICD_LiquidateAll>>]
            /\ icd_weights' = [sym \in ICD_Symbols |-> 0]

NextDispersion ==
    \/ ICD_EndWarmUp
    \/ ICD_OnDataStep
    \/ ICD_CalculateStep
    \/ ICD_ExecuteDispersionTrade
    \/ ICD_RebalancePortfolio

-----------------------------------------------------------------------------
(***************************************************************************)
(* entropy-regime-detector/main.py : CalculatePermutationEntropy           *)
(*                                                                         *)
(* The function is pure.  Its float result, the Shannon entropy of the     *)
(* ordinal-pattern distribution divided by log2(m!), is carried exactly    *)
(* as the distribution itself: [counts, total].  With p = count / total,   *)
(*    entropy = - sum p * log2(p),   normalized = entropy / log2(m!)       *)
(* so, exactly and in integers,                                            *)
(*    normalized  = 0  iff  every p is 1                                   *)
(*    normalized >= 0  iff  prod count^count <= total^total                *)
(*    normalized <= 1  iff  total^total <= (m!)^total * prod count^count   *)
(***************************************************************************)

ERD_embedding_dim == 5
ERD_tau == 1

\* Bound of the harness that feeds the function: the longest price list.
MaxPeLen == 10
\* Prices offered to it: one of these, or the last price plus one.
PE_PriceSet == {1, 2}

\* len(prices) below this returns None (line 96).
\* Mutant: the guard without the (embedding_dim - 1) * tau term.
ERD_MinLength_NoDelay == ERD_embedding_dim

ERD_MinLength == ERD_embedding_dim + (ERD_embedding_dim - 1) * ERD_tau

\* range(n - (m - 1) * tau), the window starts (0-based)
ERD_Windows(prices) == 0..(Len(prices) - (ERD_embedding_dim - 1) * ERD_tau - 1)

\* embedding = [prices[i + j * tau] for j in range(m)]
ERD_Embedding(prices, i) ==
    [j \in 0..(ERD_embedding_dim - 1) |-> prices[i + j * ERD_tau + 1]]

\* tuple(sorted(range(m), key=lambda k: embedding[k])): a stable argsort
ERD_Pattern(embedding) ==
    LET m == ERD_embedding_dim
        Before(k) == Cardinality({j \in 0..(m-1) :
                        \/ embedding[j] < embedding[k]
                        \/ (embedding[j] = embedding[k] /\ j < k)})
    IN [r \in 1..m |-> CHOOSE k \in 0..(m-1) : Before(k) = r - 1]

\* pattern_counts after the loop of lines 110-118
ERD_PatternCounts(prices) ==
    LET W == ERD_Windows(prices)
        PatternAt(i) == ERD_Pattern(ERD_Embedding(prices, i))
    IN [p \in {PatternAt(i) : i \in W} |-> Cardinality({i \in W : PatternAt(i) = p})]

RECURSIVE Factorial(_)
Factorial(n) == IF n <= 1 THEN 1 ELSE n * Factorial(n - 1)

\* b^e, saturating at SatCap so that it stays a machine integer; any operand
\* compared with it is below SatCap.
SatCap == 1000000000
SatMul(a, b) == IF a >= SatCap \/ b >= SatCap \/ a > SatCap \div b THEN SatCap ELSE a * b
RECURSIVE SatPow(_, _)
SatPow(b, e) == IF e = 0 THEN 1 ELSE SatMul(b, SatPow(b, e - 1))

\* prod count^count over a set of patterns
RECURSIVE ERD_ProdCC(_, _)
ERD_ProdCC(counts, pats) ==
    IF pats = {} THEN 1
    ELSE LET p == CHOOSE q \in pats : TRUE
         IN SatMul(SatPow(counts[p], counts[p]), ERD_ProdCC(counts, pats \ {p}))

\* CalculatePermutationEntropy(prices): None, or the pattern distribution
\* whose normalized entropy is the value returned.
ERD_CalculatePermutationEntropy(prices) ==
    IF Len(prices) < ERD_MinLength THEN None
    ELSE LET total_patterns == Cardinality(ERD_Windows(prices))
         IN IF total_patterns = 0 THEN None
            ELSE Some([counts |-> ERD_PatternCounts(prices),
                       total |-> total_patterns,
                       max_states |-> Factorial(ERD_embedding_dim)])

\* Reading the returned value (lines 124-134).
ERD_EntropyIsZero(h) == \A p \in DOMAIN h.counts : h.counts[p] = h.total
ERD_EntropyAtLeast0(h) ==
    ERD_ProdCC(h.counts, DOMAIN h.counts) <= SatPow(h.total, h.total)
ERD_EntropyAtMost1(h) ==
    SatPow(h.total, h.total)
        <= SatMul(SatPow(h.max_states, h.total), ERD_ProdCC(h.counts, DOMAIN h.counts))

\* Harness: grow the argument by one price.
PE_Extend(p) ==
    /\ Len(pe_prices) < MaxPeLen
    /\ pe_prices' = Append(pe_prices, p)
    /\ pe_result' = <<>>
    /\ UNCHANGED peOthers

PE_ExtendStep ==
    \E p \in PE_PriceSet \cup {IF pe_prices = <<>> THEN 1 ELSE pe_prices[Len(pe_prices)] + 1} :
        PE_Extend(p)

\* Harness: call the function on the argument.
PE_Call ==
    /\ pe_result = <<>>
    /\ pe_result' = <<[value |-> ERD_CalculatePermutationEntropy(pe_prices)]>>
    /\ UNCHANGED pe_prices
    /\ UNCHANGED peOthers

PE_Init ==
    /\ pe_prices = <<>>
    /\ pe_result = <<>>

NextPermutationEntropy ==
    \/ PE_ExtendStep
    \/ PE_Call

-----------------------------------------------------------------------------
(***************************************************************************)
(* fractal-dimension-breakout/main.py : CalculateHurstExponent             *)
(*                                                                         *)
(* The function is pure.  returns = diff(log(prices)), so two returns are  *)
(* equal exactly when the price ratios are, and a subseries has standard   *)
(* deviation S > 0 exactly when its returns are not all equal, which is    *)
(* all the R/S loop needs to decide which lags yield a value.  The slope   *)
(* scipy's linregress fits to them is an input, in hundredths; so is the   *)
(* result.                                                                 *)
(***************************************************************************)

FDB_hurst_lookback == 100
FDB_min_lag == 2
FDB_max_lag == 20
FDB_hurst_floor == 1
FDB_hurst_ceiling == 99
FDB_min_rs_values == 3

\* Bounds of the harness that feeds the function: how many prices past
\* hurst_lookback the list may grow, and how many of its last positions are
\* free (the earlier ones hold the price 1).
MaxHurstOver == 1
MaxHurstTail == 4
Hurst_PriceSet == {1, 2}
Hurst_SlopeGrid == {-50, 0, 1, 50, 99, 100, 150}

\* returns[k] = returns[l], for 1-based positions in prices
FDB_SameReturn(prices, k, l) == prices[k+1] * prices[l] = prices[l+1] * prices[k]

\* S > 0 for subseries = returns[i * lag : (i + 1) * lag]  (0-based i)
FDB_StdPositive(prices, lag, i) ==
    \E k, l \in (i * lag + 1)..((i + 1) * lag) : ~FDB_SameReturn(prices, k, l)

\* lags = range(min_lag, min(max_lag, len(returns) // 4))
FDB_Lags(n_returns) == FDB_min_lag..(Min(FDB_max_lag, n_returns \div 4) - 1)

\* the lags for which rs_subseries is not empty (lines 120-145)
FDB_RsLags(prices) ==
    LET n_returns == Len(prices) - 1 IN
    {lag \in FDB_Lags(n_returns) :
        \E i \in 0..((n_returns \div lag) - 1) : FDB_StdPositive(prices, lag, i)}

\* Mutant: the clamp without its lower limit.
FDB_Clamp_NoFloor(slope) == Min(FDB_hurst_ceiling, slope)

\* hurst = max(0.01, min(0.99, slope))
FDB_Clamp(slope) == Max(FDB_hurst_floor, Min(FDB_hurst_ceiling, slope))

\* CalculateHurstExponent(prices), linregress returning slope.
FDB_CalculateHurstExponent(all_prices, slope) ==
    IF Len(all_prices) < FDB_hurst_lookback THEN None
    ELSE LET prices == SubSeq(all_prices, Len(all_prices) - FDB_hurst_lookback + 1,
                              Len(all_prices))
         IN IF Len(prices) - 1 < FDB_max_lag THEN None
            ELSE IF Cardinality(FDB_RsLags(prices)) < FDB_min_rs_values THEN None
            ELSE Some(FDB_Clamp(slope))

\* Harness: grow the argument by one price.
Hurst_Extend(p) ==
    /\ Len(hurst_prices) < FDB_hurst_lookback + MaxHurstOver
    /\ Len(hurst_prices) < FDB_hurst_lookback + MaxHurstOver - MaxHurstTail => p = 1
    /\ hurst_prices' = Append(hurst_prices, p)
    /\ hurst_result' = <<>>
    /\ UNCHANGED hurstOthers

Hurst_ExtendStep == \E p \in Hurst_PriceSet : Hurst_Extend(p)

\* Harness: call the function on the argument.
Hurst_Call(slope) ==
    /\ hurst_result = <<>>
    /\ hurst_result' = <<[value |-> FDB_CalculateHurstExponent(hurst_prices, slope),
                          slope |-> slope]>>
    /\ UNCHANGED hurst_prices
    /\ UNCHANGED hurstOthers

Hurst_CallStep == \E slope \in Hurst_SlopeGrid : Hurst_Call(slope)

Hurst_Init ==
    /\ hurst_prices = <<>>
    /\ hurst_result = <<>>

NextHurst ==
    \/ Hurst_ExtendStep
    \/ Hurst_CallStep

-----------------------------------------------------------------------------
(***************************************************************************)
(* vpin-toxicity-detector/main.py : VPINToxicityDetector                   *)
(*                                                                         *)
(* Units: volumes in lots of VPIN_Lot shares, order quantities in shares,   *)
(* prices in dollars, Time in seconds.  Every float of the script (buy     *)
(* volumes, VPIN, stops, confidence) is an exact rational <<numerator,     *)
(* denominator>> in lowest terms with a positive denominator; float        *)
(* rounding is not modelled.                                               *)
(* Bulk volume classification takes log, std and the normal CDF of the     *)
(* standardized price change z.  Its sign is computed here from the        *)
(* prices (sigma > 0 exactly when the last returns are not all equal);     *)
(* the CDF value is an input of the bar, on the side of 1/2 that the sign  *)
(* of z puts it.                                                           *)
(***************************************************************************)

VPIN_spy == "SPY"
VPIN_qqq == "QQQ"
VPIN_SymbolSeq == <<VPIN_spy, VPIN_qqq>>
VPIN_Symbols == {VPIN_spy, VPIN_qqq}

VPIN_Lot == 25000
VPIN_bucket_size == 50000 \div VPIN_Lot
VPIN_n_buckets == 50
VPIN_sigma_lookback == 20
VPIN_price_maxlen == 100
VPIN_vpin_maxlen == 100
VPIN_min_regime_history == 10
VPIN_min_signal_history == 20
VPIN_momentum_lookback == 20
\* Mutant: half an hour between signals
VPIN_rate_limit_seconds_Half == 3600 \div 2
VPIN_rate_limit_seconds == 3600
VPIN_high_toxicity == <<13, 20>>
VPIN_low_toxicity == <<7, 20>>
VPIN_vpin_acceleration == <<1, 20>>
VPIN_max_position == <<3, 10>>
VPIN_base_stop == <<1, 50>>
VPIN_profit_target == <<1, 25>>

\* ---- exact rational arithmetic
RECURSIVE GCD(_, _)
GCD(a, b) == IF b = 0 THEN a ELSE GCD(b, a % b)

Rat(n, d) == LET g == GCD(Abs(n), d) IN <<n \div g, d \div g>>
RInt(n) == <<n, 1>>
RNeg(a) == <<-a[1], a[2]>>
RAdd(a, b) ==
    IF a[2] = 1 /\ b[2] = 1 THEN <<a[1] + b[1], 1>>
    ELSE LET g == GCD(a[2], b[2])
         IN Rat(a[1] * (b[2] \div g) + b[1] * (a[2] \div g), a[2] * (b[2] \div g))
RSub(a, b) == RAdd(a, RNeg(b))
RMul(a, b) ==
    LET g1 == GCD(Abs(a[1]), b[2])
        g2 == GCD(Abs(b[1]), a[2])
    IN IF a[1] = 0 \/ b[1] = 0 THEN <<0, 1>>
       ELSE <<(a[1] \div g1) * (b[1] \div g2), (a[2] \div g2) * (b[2] \div g1)>>
RInv(a) == IF a[1] < 0 THEN <<-a[2], -a[1]>> ELSE <<a[2], a[1]>>
RDiv(a, b) == RMul(a, RInv(b))
RAbs(a) == <<Abs(a[1]), a[2]>>
\* a < b, by comparing the continued fractions (no product is formed)
RECURSIVE RLess(_, _)
RLess(a, b) ==
    LET qa == a[1] \div a[2]
        qb == b[1] \div b[2]
        ra == a[1] % a[2]
        rb == b[1] % b[2]
    IN IF qa # qb THEN qa < qb
       ELSE IF rb = 0 THEN FALSE
       ELSE IF ra = 0 THEN TRUE
       ELSE RLess(<<b[2], rb>>, <<a[2], ra>>)
RLeq(a, b) == ~RLess(b, a)
RMin(a, b) == IF RLess(b, a) THEN b ELSE a
\* int(x) of a non-negative x
RTrunc(a) == a[1] \div a[2]
IsNumber(x) == Len(x) = 2

\* Mutant: a full deque that refuses the new element instead of dropping
\* its oldest
DequeAppend_DropNewest(q, x, n) == IF Len(q) >= n THEN q ELSE Append(q, x)
\* deque(maxlen = n).append(x)
DequeAppend(q, x, n) == IF Len(q) >= n THEN Append(Tail(q), x) ELSE Append(q, x)
\* seq[-n:]
LastN(q, n) == IF Len(q) <= n THEN q ELSE SubSeq(q, Len(q) - n + 1, Len(q))
\* sum(q): exact, so the order of the additions does not matter; the range
\* is summed by halves
RECURSIVE RSumRange(_, _, _)
RSumRange(q, lo, hi) ==
    IF lo > hi THEN <<0, 1>>
    ELSE IF lo = hi THEN q[lo]
    ELSE LET mid == (lo + hi) \div 2
         IN RAdd(RSumRange(q, lo, mid), RSumRange(q, mid + 1, hi))
RSum(q) == RSumRange(q, 1, Len(q))
\* ---- ProcessBarForVPIN
\* returns[i] = returns[j] for the log-returns of prices p: p[i+1]/p[i] = p[j+1]/p[j]
VPIN_SameReturn(p, i, j) == p[i + 1] * p[j] = p[j + 1] * p[i]
\* np.std(np.diff(np.log(prices[-sigma_lookback:]))) > 0
VPIN_SigmaPositive(prices) ==
    LET p == LastN(prices, VPIN_sigma_lookback)
    IN \E i \in 1..(Len(p) - 1) : ~VPIN_SameReturn(p, 1, i)
\* the sign of z = price_change / sigma (0 when sigma is 0)
VPIN_ZSign(prices, close) ==
    IF ~VPIN_SigmaPositive(prices) THEN 0
    ELSE IF close > prices[Len(prices)] THEN 1
    ELSE IF close < prices[Len(prices)] THEN -1
    ELSE 0
\* the values norm.cdf(z) may take, on a grid: 1/2 at z = 0, above it for
\* z > 0 (the float reaches 1.0 for large z), below it for z < 0
VPIN_BuyProbs(prices, close) ==
    IF Len(prices) < VPIN_sigma_lookback THEN {<<1, 2>>}
    ELSE IF VPIN_ZSign(prices, close) > 0 THEN {<<3, 4>>, <<1, 1>>}
    ELSE IF VPIN_ZSign(prices, close) < 0 THEN {<<0, 1>>, <<1, 4>>}
    ELSE {<<1, 2>>}
VPIN_BuyVolume(prices, volume, buy_prob) ==
    IF Len(prices) < VPIN_sigma_lookback
    THEN RMul(RInt(volume), <<1, 2>>)
    ELSE RMul(RInt(volume), buy_prob)

VPIN_CalculateVPIN(buckets) ==
    IF Len(buckets) < VPIN_n_buckets THEN None
    ELSE LET last == LastN(buckets, VPIN_n_buckets)
             total_imbalance == RSum([i \in 1..Len(last) |-> last[i].order_imbalance])
             total_volume == VPIN_n_buckets * VPIN_bucket_size
         IN IF total_volume > 0 THEN RDiv(total_imbalance, RInt(total_volume))
            ELSE <<0, 1>>

VPIN_FinalBuy_Unscaled(buy_volume, overflow_ratio) == buy_volume

VPIN_FinalBuy(buy_volume, overflow_ratio) ==
    RMul(buy_volume, RSub(RInt(1), overflow_ratio))

\* One pass of the `while bucket['volume'] >= self.bucket_size` loop.  st
\* carries the symbol's current bucket, bucket_history, vpin_history and the
\* appends made to vpin_history so far ([value, buckets]: what was appended
\* and len(bucket_history) at that moment).
VPIN_CompleteBucket(st) ==
    IF st.bucket.volume >= VPIN_bucket_size
    THEN LET overflow == st.bucket.volume - VPIN_bucket_size
             overflow_ratio == IF st.bucket.volume > 0
                               THEN Rat(overflow, st.bucket.volume) ELSE <<0, 1>>
             final_buy == VPIN_FinalBuy(st.bucket.buy_volume, overflow_ratio)
             final_sell == RSub(RInt(VPIN_bucket_size), final_buy)
             stored == DequeAppend(st.buckets,
                                   [buy_volume |-> final_buy,
                                    sell_volume |-> final_sell,
                                    order_imbalance |-> RAbs(RSub(final_buy, final_sell))],
                                   VPIN_n_buckets)
             enough == Len(stored) >= VPIN_n_buckets
             vpin == VPIN_CalculateVPIN(stored)
         IN [bucket |-> [volume |-> overflow,
                         buy_volume |-> RMul(st.bucket.buy_volume, overflow_ratio),
                         trades |-> <<>>],
             buckets |-> stored,
             vpins |-> IF enough THEN DequeAppend(st.vpins, vpin, VPIN_vpin_maxlen)
                       ELSE st.vpins,
             appended |-> IF enough
                          THEN Append(st.appended, [value |-> vpin, buckets |-> Len(stored)])
                          ELSE st.appended]
    ELSE st

\* At most n passes of the loop: the first half of them, then the rest.
RECURSIVE VPIN_Passes(_, _)
VPIN_Passes(st, n) ==
    IF n = 0 \/ st.bucket.volume < VPIN_bucket_size THEN st
    ELSE IF n = 1 THEN VPIN_CompleteBucket(st)
    ELSE VPIN_Passes(VPIN_Passes(st, n \div 2), n - n \div 2)

\* The loop runs until its guard fails; each pass takes bucket_size off the
\* volume, so that is after volume // bucket_size passes.
VPIN_CompleteBuckets(st) == VPIN_Passes(st, st.bucket.volume \div VPIN_bucket_size)

VPIN_ProcessBarForVPIN(st, prices, bar) ==
    IF bar.Volume = 0 THEN st
    ELSE LET buy_vol == VPIN_BuyVolume(prices, bar.Volume, bar.buy_prob)
         IN VPIN_CompleteBuckets(
              [st EXCEPT !.bucket =
                  [volume |-> st.bucket.volume + bar.Volume,
                   buy_volume |-> RAdd(st.bucket.buy_volume, buy_vol),
                   trades |-> Append(st.bucket.trades,
                                     [price |-> bar.Close, volume |-> bar.Volume,
                                      buy_volume |-> buy_vol])]])

\* ---- DetectToxicityRegime: <<regime, direction, confidence>>; a regime or
\* direction of None is the string "None"
VPIN_Mean(q) == RDiv(RSum(q), RInt(Len(q)))
VPIN_Momentum(prices) ==
    IF Len(prices) >= VPIN_momentum_lookback
    THEN LET first == prices[Len(prices) - VPIN_momentum_lookback + 1]
         IN Rat(prices[Len(prices)] - first, first)
    ELSE <<0, 1>>
VPIN_DetectToxicityRegime(vpins, prices) ==
    IF Len(vpins) < VPIN_min_regime_history THEN <<"None", "None", <<0, 1>>>>
    ELSE LET current_vpin == vpins[Len(vpins)]
             \* vpin_array[-5:-1]
             vpin_change == IF Len(vpins) > 5
                            THEN RSub(current_vpin,
                                      VPIN_Mean(SubSeq(vpins, Len(vpins) - 4, Len(vpins) - 1)))
                            ELSE <<0, 1>>
             momentum == VPIN_Momentum(prices)
         IN IF RLess(VPIN_high_toxicity, current_vpin)
            THEN IF RLess(<<1, 100>>, RAbs(momentum))
                 THEN <<"toxic",
                        IF RLess(<<0, 1>>, momentum) THEN "LONG" ELSE "SHORT",
                        RMin(<<1, 1>>, RMul(RSub(current_vpin, <<1, 2>>), <<2, 1>>))>>
                 ELSE <<"toxic", "PENDING",
                        RMin(<<1, 1>>, RMul(RSub(current_vpin, <<1, 2>>), <<3, 2>>))>>
            ELSE IF RLess(current_vpin, VPIN_low_toxicity)
            THEN <<"clean", "None", <<0, 1>>>>
            ELSE IF RLess(VPIN_vpin_acceleration, vpin_change)
            THEN <<"normal", "RISING", RMin(<<1, 1>>, RDiv(vpin_change, <<1, 10>>))>>
            ELSE <<"normal", "None", <<0, 1>>>>
\* ---- dict helpers
DictDel(d, k) == [x \in DOMAIN d \ {k} |-> d[x]]
DictSet(d, k, v) == [x \in DOMAIN d \cup {k} |-> IF x = k THEN v ELSE d[x]]

\* ---- the bars the host delivers
MaxVpinBars == 3
MaxVpinTicks == 2
VPIN_TickSeconds == 1800
VPIN_QuietPrice == 100
VPIN_QuietBars == VPIN_sigma_lookback - 1
VPIN_PriceSet == {100, 102, 105, 107}
\* no volume, one and a half buckets, seventy buckets
VPIN_VolumeSet == {0, 75000 \div VPIN_Lot, 3500000 \div VPIN_Lot}
VPIN_ValueLevels == {300, 100000}

VPIN_ProbGrid == {<<0, 1>>, <<1, 4>>, <<1, 2>>, <<3, 4>>, <<1, 1>>}

\* The first bars are quiet (both symbols, no volume, no price change), QQQ
\* stays quiet; after them a slice carries one symbol.
VPIN_Bars(symbol) ==
    IF vpin_bars < VPIN_QuietBars \/ symbol = VPIN_qqq
    THEN {[Close |-> VPIN_QuietPrice, Volume |-> 0, buy_prob |-> <<1, 2>>]}
    ELSE {bar \in [Close : VPIN_PriceSet, Volume : VPIN_VolumeSet, buy_prob : VPIN_ProbGrid] :
            bar.buy_prob \in VPIN_BuyProbs(vpin_price_history[symbol], bar.Close)}
VPIN_Slices ==
    LET present == IF vpin_bars < VPIN_QuietBars THEN {VPIN_Symbols}
                   ELSE {{VPIN_spy}, {VPIN_qqq}}
    IN UNION {{f \in [D -> UNION {VPIN_Bars(s) : s \in D}] :
                 \A s \in D : f[s] \in VPIN_Bars(s)} : D \in present}

VPIN_Initialize ==
    /\ vpin_warm = TRUE
    /\ vpin_time = 0
    /\ vpin_price_history = [s \in VPIN_Symbols |-> <<>>]
    /\ vpin_current_bucket =
         [s \in VPIN_Symbols |-> [volume |-> 0, buy_volume |-> <<0, 1>>, trades |-> <<>>]]
    /\ vpin_bucket_history = [s \in VPIN_Symbols |-> <<>>]
    /\ vpin_history = [s \in VPIN_Symbols |-> <<>>]
    /\ vpin_toxicity_state = [s \in VPIN_Symbols |-> "normal"]
    /\ vpin_toxicity_direction = [s \in VPIN_Symbols |-> "None"]
    /\ vpin_entry_prices = <<>>
    /\ vpin_entry_vpin = <<>>
    /\ vpin_stop_losses = <<>>
    /\ vpin_last_signal_time = <<>>
    /\ vpin_quantity = [s \in VPIN_Symbols |-> 0]
    /\ vpin_bars = 0
    /\ vpin_appended = <<>>
    /\ vpin_exits = <<>>
    /\ vpin_calls = [by |-> "Initialize", orders |-> <<>>]
    /\ vpin_entered = <<>>

VPIN_EndWarmUp ==
    /\ vpin_warm
    /\ vpin_warm' = FALSE
    /\ UNCHANGED <<vpin_time, vpin_price_history, vpin_current_bucket, vpin_bucket_history,
                   vpin_history, vpin_toxicity_state, vpin_toxicity_direction,
                   vpin_entry_prices, vpin_entry_vpin, vpin_stop_losses,
                   vpin_last_signal_time, vpin_quantity, vpin_bars, vpin_appended,
                   vpin_exits, vpin_calls, vpin_entered>>
    /\ UNCHANGED vpinOthers

\* self.Time moves on; nothing reads it before the first signal is recorded
VPIN_Tick ==
    /\ DOMAIN vpin_last_signal_time # {}
    /\ vpin_time < MaxVpinTicks * VPIN_TickSeconds
    /\ vpin_time' = vpin_time + VPIN_TickSeconds
    /\ UNCHANGED <<vpin_warm, vpin_price_history, vpin_current_bucket, vpin_bucket_history,
                   vpin_history, vpin_toxicity_state, vpin_toxicity_direction,
                   vpin_entry_prices, vpin_entry_vpin, vpin_stop_losses,
                   vpin_last_signal_time, vpin_quantity, vpin_bars, vpin_appended,
                   vpin_exits, vpin_calls, vpin_entered>>
    /\ UNCHANGED vpinOthers

\* ---- ManagePositions.  m carries the three tracking dicts, the portfolio
\* quantities and the orders and exits made so far.
VPIN_CleanupPosition_KeepsVpin(m, symbol) ==
    [m EXCEPT !.entry_prices = DictDel(@, symbol),
              !.stop_losses = DictDel(@, symbol)]

VPIN_CleanupPosition(m, symbol) ==
    [m EXCEPT !.entry_prices = DictDel(@, symbol),
              !.entry_vpin = DictDel(@, symbol),
              !.stop_losses = DictDel(@, symbol)]

VPIN_Liquidate(m, symbol) ==
    [m EXCEPT !.quantity[symbol] = 0,
              !.orders = Append(@, <<"Liquidate", symbol>>)]

VPIN_Exit(m, symbol, why) ==
    LET closed == IF why = "flat" THEN m ELSE VPIN_Liquidate(m, symbol)
    IN [VPIN_CleanupPosition(closed, symbol) EXCEPT
           !.exits = Append(@, [symbol |-> symbol, why |-> why])]

\* one iteration of `for symbol in list(self.entry_prices.keys())`
VPIN_ManageSymbol(m, symbol, slice, vpins) ==
    IF symbol \notin DOMAIN m.entry_prices \/ symbol \notin DOMAIN slice THEN m
    ELSE LET price == slice[symbol].Close
             entry == m.entry_prices[symbol]
             stop == m.stop_losses[symbol]
             pnl_pct == Rat(price - entry, entry)
             current_vpin == IF Len(vpins[symbol]) > 0
                             THEN vpins[symbol][Len(vpins[symbol])] ELSE None
             new_stop == RMul(RInt(price), <<197, 200>>)
         IN IF m.quantity[symbol] <= 0 THEN VPIN_Exit(m, symbol, "flat")
            ELSE IF RLess(RInt(price), stop) THEN VPIN_Exit(m, symbol, "stop")
            ELSE IF RLeq(VPIN_profit_target, pnl_pct) THEN VPIN_Exit(m, symbol, "target")
            ELSE IF /\ current_vpin # None
                    /\ symbol \in DOMAIN m.entry_vpin
                    /\ RLess(<<3, 20>>, RSub(m.entry_vpin[symbol], current_vpin))
                    /\ RLess(<<0, 1>>, pnl_pct)
                 THEN VPIN_Exit(m, symbol, "vpin")
            ELSE IF RLess(<<1, 50>>, pnl_pct) /\ RLess(m.stop_losses[symbol], new_stop)
                 THEN [m EXCEPT !.stop_losses[symbol] = new_stop]
            ELSE m

\* The symbols are handled one after the other; what is done for one does
\* not touch the other, so the order of the dict's keys does not matter.
VPIN_ManagePositions(m, slice, vpins) ==
    VPIN_ManageSymbol(VPIN_ManageSymbol(m, VPIN_spy, slice, vpins), VPIN_qqq, slice, vpins)

\* for symbol in [self.spy, self.qqq]: ProcessBarForVPIN on the symbol's bar;
\* the symbols' buckets and histories are separate
VPIN_ProcessSlice(slice) ==
    [s \in VPIN_Symbols |->
        LET st == [bucket |-> vpin_current_bucket[s],
                   buckets |-> vpin_bucket_history[s],
                   vpins |-> vpin_history[s],
                   appended |-> <<>>]
        IN IF s \in DOMAIN slice
           THEN VPIN_ProcessBarForVPIN(st, vpin_price_history[s], slice[s])
           ELSE st]

VPIN_TagAppends(symbol, appended) ==
    [i \in 1..Len(appended) |->
        [symbol |-> symbol, value |-> appended[i].value, buckets |-> appended[i].buckets]]

VPIN_OnData(slice) ==
    /\ IF vpin_warm
       THEN /\ vpin_calls' = [by |-> "OnData", orders |-> <<>>]
            /\ vpin_appended' = <<>>
            /\ vpin_exits' = <<>>
            /\ UNCHANGED <<vpin_price_history, vpin_current_bucket, vpin_bucket_history,
                           vpin_history, vpin_entry_prices, vpin_entry_vpin,
                           vpin_stop_losses, vpin_quantity, vpin_bars>>
       ELSE \E after \in {VPIN_ProcessSlice(slice)} :
            \E managed \in {VPIN_ManagePositions(
                               [entry_prices |-> vpin_entry_prices,
                                entry_vpin |-> vpin_entry_vpin,
                                stop_losses |-> vpin_stop_losses,
                                quantity |-> vpin_quantity,
                                orders |-> <<>>,
                                exits |-> <<>>],
                               slice, [s \in VPIN_Symbols |-> after[s].vpins])} :
               /\ vpin_current_bucket' = [s \in VPIN_Symbols |-> after[s].bucket]
               /\ vpin_bucket_history' = [s \in VPIN_Symbols |-> after[s].buckets]
               /\ vpin_history' = [s \in VPIN_Symbols |-> after[s].vpins]
               /\ vpin_price_history' =
                    [s \in VPIN_Symbols |->
                       IF s \in DOMAIN slice
                       THEN DequeAppend(vpin_price_history[s], slice[s].Close, VPIN_price_maxlen)
                       ELSE vpin_price_history[s]]
               /\ vpin_appended' = VPIN_TagAppends(VPIN_spy, after[VPIN_spy].appended)
                                    \o VPIN_TagAppends(VPIN_qqq, after[VPIN_qqq].appended)
               /\ vpin_entry_prices' = managed.entry_prices
               /\ vpin_entry_vpin' = managed.entry_vpin
               /\ vpin_stop_losses' = managed.stop_losses
               /\ vpin_quantity' = managed.quantity
               /\ vpin_exits' = managed.exits
               /\ vpin_calls' = [by |-> "OnData", orders |-> managed.orders]
               /\ vpin_bars' = vpin_bars + 1
    /\ UNCHANGED <<vpin_warm, vpin_time, vpin_toxicity_state, vpin_toxicity_direction,
                   vpin_last_signal_time, vpin_entered>>
    /\ UNCHANGED vpinOthers

VPIN_OnDataStep ==
    /\ vpin_bars < VPIN_QuietBars + MaxVpinBars
    /\ \E slice \in VPIN_Slices : VPIN_OnData(slice)

\* The result of EnterLong: the order, if any, and the tracking entries.
VPIN_EnterLong(symbol, price, vpin, confidence, portfolio_value) ==
    LET position_size == RMul(VPIN_max_position, confidence)
        target_value == RMul(RInt(portfolio_value), position_size)
        shares == RTrunc(RDiv(target_value, RInt(price)))
    IN /\ vpin_entered' = Append(vpin_entered, [symbol |-> symbol, time |-> vpin_time])
       /\ IF shares > 0
          THEN /\ vpin_quantity' = [vpin_quantity EXCEPT ![symbol] = @ + shares]
               /\ vpin_entry_prices' = DictSet(vpin_entry_prices, symbol, price)
               /\ vpin_entry_vpin' = DictSet(vpin_entry_vpin, symbol, vpin)
               /\ vpin_stop_losses' = DictSet(vpin_stop_losses, symbol,
                                              RMul(RInt(price), RSub(<<1, 1>>, VPIN_base_stop)))
               /\ vpin_calls' = [by |-> "OnHourlyData",
                                 orders |-> <<<<"MarketOrder", symbol, shares>>>>]
          ELSE /\ vpin_calls' = [by |-> "OnHourlyData", orders |-> <<>>]
               /\ UNCHANGED <<vpin_quantity, vpin_entry_prices, vpin_entry_vpin,
                              vpin_stop_losses>>

\* The consolidated hourly bar closes at the symbol's last minute close.
VPIN_OnHourlyData(symbol, portfolio_value) ==
    LET vpins == vpin_history[symbol]
        det == VPIN_DetectToxicityRegime(vpins, vpin_price_history[symbol])
        regime == det[1]
        direction == det[2]
        confidence == det[3]
        current_vpin == vpins[Len(vpins)]
        current_qty == vpin_quantity[symbol]
        price == vpin_price_history[symbol][Len(vpin_price_history[symbol])]
        analysed == /\ symbol \in DOMAIN vpin_history
                    /\ Len(vpins) >= VPIN_min_signal_history
                    /\ regime # "None"
        limited == /\ symbol \in DOMAIN vpin_last_signal_time
                   /\ vpin_time - vpin_last_signal_time[symbol] < VPIN_rate_limit_seconds
        enters == /\ analysed
                  /\ ~limited
                  /\ regime = "toxic"
                  /\ RLess(<<1, 2>>, confidence)
                  /\ direction = "LONG"
                  /\ current_qty <= 0
    IN /\ IF analysed
          THEN /\ vpin_toxicity_state' = [vpin_toxicity_state EXCEPT ![symbol] = regime]
               /\ vpin_toxicity_direction' =
                    [vpin_toxicity_direction EXCEPT ![symbol] = direction]
          ELSE UNCHANGED <<vpin_toxicity_state, vpin_toxicity_direction>>
       /\ IF enters
          THEN /\ VPIN_EnterLong(symbol, price, current_vpin, confidence, portfolio_value)
               /\ vpin_last_signal_time' = DictSet(vpin_last_signal_time, symbol, vpin_time)
          ELSE /\ vpin_calls' = [by |-> "OnHourlyData", orders |-> <<>>]
               /\ UNCHANGED <<vpin_quantity, vpin_entry_prices, vpin_entry_vpin,
                              vpin_stop_losses, vpin_last_signal_time, vpin_entered>>
       /\ vpin_appended' = <<>>
       /\ vpin_exits' = <<>>
       /\ UNCHANGED <<vpin_warm, vpin_time, vpin_price_history, vpin_current_bucket,
                      vpin_bucket_history, vpin_history, vpin_bars>>
       /\ UNCHANGED vpinOthers

VPIN_OnHourlyDataStep ==
    \E symbol \in VPIN_Symbols, portfolio_value \in VPIN_ValueLevels :
        VPIN_OnHourlyData(symbol, portfolio_value)

NextVPIN ==
    \/ VPIN_EndWarmUp
    \/ VPIN_Tick
    \/ VPIN_OnDataStep
    \/ VPIN_OnHourlyDataStep

-----------------------------------------------------------------------------
(***************************************************************************)
(* sector-rotation-velocity/main.py : SectorRotationVelocity               *)
(*                                                                         *)
(* Units: Time in days, prices and portfolio value in dollars; relative    *)
(* strength, velocity, acceleration, scores and weights are exact          *)
(* rationals.  Every slice carries every symbol, so the price deques have  *)
(* one common length; they and the rs_history / rs_velocity deques are     *)
(* tracked by length, up to the largest value a guard compares it with.    *)
(* The relative strength a call of CalculateRotationVelocity appends, and  *)
(* the velocity and acceleration its differences yield, come from the      *)
(* host's prices: they are inputs of the action.  A position is held       *)
(* exactly when the last order for the symbol set a non-zero weight.       *)
(***************************************************************************)

MaxSrvSectors == 4
MaxSrvDays == 10

SRV_SectorSeq ==
    <<"XLK", "XLF", "XLE", "XLV", "XLI", "XLC", "XLY", "XLP", "XLU", "XLB", "XLRE">>
\* self.sectors, in insertion order (the first MaxSrvSectors of them)
SRV_Tickers == SubSeq(SRV_SectorSeq, 1, Min(MaxSrvSectors, Len(SRV_SectorSeq)))
SRV_Sectors == {SRV_Tickers[i] : i \in 1..Len(SRV_Tickers)}

SRV_rs_lookback == 20
SRV_velocity_lookback == 10
SRV_accel_lookback == 5
SRV_top_n_sectors == 3
SRV_min_ranked_history == 10
\* Mutant: a day less between rebalances
SRV_rebalance_days_Short == 5 - 1
SRV_rebalance_days == 5
SRV_cash == 100000
SRV_max_sector_weight == <<1, 4>>
SRV_total_equity_exposure == <<9, 10>>
SRV_min_rs_velocity == <<0, 1>>
SRV_max_drawdown == <<9, 50>>
SRV_sector_stop_loss == <<2, 25>>

SRV_LevelGrid == {<<1, 1>>}
SRV_VelocityGrid == {<<-1, 50>>, <<1, 50>>}
SRV_AccelGrid == {<<-1, 200>>, <<1, 200>>}
SRV_PriceLevels == {90, 100}
SRV_EntryPriceLevels == {100}
SRV_ValueLevels == {80000, 100000}

\* the first sector takes a, the others b
SRV_Split(a, b) == [t \in SRV_Sectors |-> IF t = SRV_Tickers[1] THEN a ELSE b]
SRV_Splits(S) == {SRV_Split(a, b) : a \in S, b \in S}
\* the velocity and acceleration a day's prices give the sectors
SRV_Derivatives == SRV_Splits(SRV_VelocityGrid \X SRV_AccelGrid)
\* the prices of the sectors in one slice
SRV_Prices == SRV_Splits(SRV_PriceLevels)

RMax(a, b) == IF RLess(a, b) THEN b ELSE a
\* np.clip(x, 0, 1)
Clip01(x) == RMin(<<1, 1>>, RMax(<<0, 1>>, x))

SRV_normalize_acceleration(accel) == Clip01(RDiv(RAdd(accel, <<1, 100>>), <<1, 50>>))
SRV_normalize_velocity(vel) == Clip01(RDiv(RAdd(vel, <<1, 20>>), <<1, 10>>))
SRV_normalize_level(level) == Clip01(RDiv(RSub(level, <<4, 5>>), <<2, 5>>))

SRV_CompositeScore(rs_level, rs_vel, rs_accel) ==
    RAdd(RAdd(RMul(<<1, 2>>, SRV_normalize_acceleration(rs_accel)),
              RMul(<<3, 10>>, SRV_normalize_velocity(rs_vel))),
         RMul(<<1, 5>>, SRV_normalize_level(rs_level)))

\* sorted(rankings, key = composite_score, reverse = True): stable, so equal
\* scores keep the order they had
RECURSIVE SRV_InsertRanked(_, _)
SRV_InsertRanked(sorted, r) ==
    IF sorted = <<>> THEN <<r>>
    ELSE IF RLess(sorted[1].composite_score, r.composite_score)
    THEN <<r>> \o sorted
    ELSE <<sorted[1]>> \o SRV_InsertRanked(Tail(sorted), r)
RECURSIVE SRV_Sorted(_)
SRV_Sorted(rankings) ==
    IF rankings = <<>> THEN <<>>
    ELSE SRV_InsertRanked(SRV_Sorted(SubSeq(rankings, 1, Len(rankings) - 1)),
                          rankings[Len(rankings)])

\* the elements q[i] with keep[i], in order
RECURSIVE SelectIdx(_, _, _)
SelectIdx(q, keep, i) ==
    IF i > Len(q) THEN <<>>
    ELSE IF keep[i] THEN <<q[i]>> \o SelectIdx(q, keep, i + 1)
    ELSE SelectIdx(q, keep, i + 1)

\* list(deque)[-1] if deque else default; the deque's last element is <<v>>
LastOr(last, default) == IF last = None THEN default ELSE Val(last)

SRV_RankSectors(rs_len, level, velocity, acceleration) ==
    LET entry(ticker) ==
          LET rs_level == LastOr(level[ticker], <<1, 1>>)
              rs_vel == LastOr(velocity[ticker], <<0, 1>>)
              rs_accel == acceleration[ticker]
          IN [ticker |-> ticker,
              rs_level |-> rs_level,
              rs_velocity |-> rs_vel,
              rs_acceleration |-> rs_accel,
              composite_score |-> SRV_CompositeScore(rs_level, rs_vel, rs_accel)]
        rankings ==
          SelectIdx([i \in 1..Len(SRV_Tickers) |-> entry(SRV_Tickers[i])],
                    [i \in 1..Len(SRV_Tickers) |-> rs_len >= SRV_min_ranked_history],
                    1)
    IN SRV_Sorted(rankings)

SRV_Initialize ==
    /\ srv_warm = TRUE
    /\ srv_time = 0
    /\ srv_price_len = 0
    /\ srv_rs_len = 0
    /\ srv_vel_len = 0
    /\ srv_level = [t \in SRV_Sectors |-> None]
    /\ srv_velocity = [t \in SRV_Sectors |-> None]
    /\ srv_acceleration = [t \in SRV_Sectors |-> <<0, 1>>]
    /\ srv_rankings = <<>>
    /\ srv_last_rebalance = 0
    /\ srv_peak_value = SRV_cash
    /\ srv_entry_prices = <<>>
    /\ srv_invested = [t \in SRV_Sectors |-> FALSE]
    /\ srv_calls = [by |-> "Initialize", orders |-> <<>>]
    /\ srv_passed = <<>>

SRV_EndWarmUp ==
    /\ srv_warm
    /\ srv_warm' = FALSE
    /\ UNCHANGED <<srv_time, srv_price_len, srv_rs_len, srv_vel_len, srv_level,
                   srv_velocity, srv_acceleration, srv_rankings, srv_last_rebalance,
                   srv_peak_value, srv_entry_prices, srv_invested, srv_calls,
                   srv_passed>>
    /\ UNCHANGED srvOthers

\* self.Time moves on by a day
SRV_Tick ==
    /\ srv_time < MaxSrvDays
    /\ srv_time' = srv_time + 1
    /\ UNCHANGED <<srv_warm, srv_price_len, srv_rs_len, srv_vel_len, srv_level,
                   srv_velocity, srv_acceleration, srv_rankings, srv_last_rebalance,
                   srv_peak_value, srv_entry_prices, srv_invested, srv_calls,
                   srv_passed>>
    /\ UNCHANGED srvOthers

\* ---- OnData.  p carries the holdings and the orders made so far.
SRV_LiquidateAll(p) ==
    [invested |-> [t \in SRV_Sectors |-> FALSE],
     orders |-> Append(p.orders, <<"Liquidate">>)]
SRV_Liquidate(p, sym) ==
    [invested |-> [p.invested EXCEPT ![sym] = FALSE],
     orders |-> Append(p.orders, <<"Liquidate", sym>>)]

\* one iteration of the stop-loss loop
SRV_StopLoss(p, sym, price) ==
    IF /\ p.invested[sym]
       /\ sym \in DOMAIN srv_entry_prices
       /\ RLess(RInt(price[sym]),
                RMul(RInt(srv_entry_prices[sym]), RSub(<<1, 1>>, SRV_sector_stop_loss)))
    THEN SRV_Liquidate(p, sym)
    ELSE p
RECURSIVE SRV_StopLosses(_, _, _)
SRV_StopLosses(p, i, price) ==
    IF i > Len(SRV_Tickers) THEN p
    ELSE SRV_StopLosses(SRV_StopLoss(p, SRV_Tickers[i], price), i + 1, price)

SRV_OnData(current_value, price) ==
    /\ IF srv_warm
       THEN /\ srv_calls' = [by |-> "OnData", orders |-> <<>>]
            /\ UNCHANGED <<srv_price_len, srv_peak_value, srv_invested>>
       ELSE \E peak \in {Max(srv_peak_value, current_value)} :
            \E after_drawdown \in
                 {IF RLess(SRV_max_drawdown, Rat(peak - current_value, peak))
                  THEN SRV_LiquidateAll([invested |-> srv_invested, orders |-> <<>>])
                  ELSE [invested |-> srv_invested, orders |-> <<>>]} :
            \E done \in {SRV_StopLosses(after_drawdown, 1, price)} :
               /\ srv_price_len' = Min(srv_price_len + 1, SRV_rs_lookback + 10)
               /\ srv_peak_value' = peak
               /\ srv_invested' = done.invested
               /\ srv_calls' = [by |-> "OnData", orders |-> done.orders]
    /\ UNCHANGED <<srv_warm, srv_time, srv_rs_len, srv_vel_len, srv_level, srv_velocity,
                   srv_acceleration, srv_rankings, srv_last_rebalance, srv_entry_prices,
                   srv_passed>>
    /\ UNCHANGED srvOthers

SRV_OnDataStep ==
    \E current_value \in SRV_ValueLevels, price \in SRV_Prices :
        SRV_OnData(current_value, price)

\* ---- CalculateRotationVelocity
SRV_CalculateRotationVelocity(rs, vel, accel) ==
    /\ IF srv_price_len < SRV_rs_lookback + 10
       THEN UNCHANGED <<srv_rs_len, srv_vel_len, srv_level, srv_velocity, srv_acceleration,
                        srv_rankings>>
       ELSE LET rs_len == Min(srv_rs_len + 1, SRV_velocity_lookback)
                has_velocity == rs_len >= SRV_velocity_lookback
                vel_len == IF has_velocity THEN Min(srv_vel_len + 1, SRV_accel_lookback)
                           ELSE srv_vel_len
                has_accel == has_velocity /\ vel_len >= SRV_accel_lookback
                level == [t \in SRV_Sectors |-> Some(rs[t])]
                velocity == [t \in SRV_Sectors |->
                               IF has_velocity THEN Some(vel[t]) ELSE srv_velocity[t]]
                acceleration == [t \in SRV_Sectors |->
                                   IF has_accel THEN accel[t] ELSE srv_acceleration[t]]
            IN /\ srv_rs_len' = rs_len
               /\ srv_vel_len' = vel_len
               /\ srv_level' = level
               /\ srv_velocity' = velocity
               /\ srv_acceleration' = acceleration
               /\ srv_rankings' = SRV_RankSectors(rs_len, level, velocity, acceleration)
    /\ srv_calls' = [by |-> "CalculateRotationVelocity", orders |-> <<>>]
    /\ UNCHANGED <<srv_warm, srv_time, srv_price_len, srv_last_rebalance, srv_peak_value,
                   srv_entry_prices, srv_invested, srv_passed>>
    /\ UNCHANGED srvOthers

SRV_CalculateStep ==
    \E rs \in [SRV_Sectors -> SRV_LevelGrid], d \in SRV_Derivatives :
        SRV_CalculateRotationVelocity(rs, [t \in SRV_Sectors |-> d[t][1]],
                                      [t \in SRV_Sectors |-> d[t][2]])

\* ---- RebalancePortfolio
\* Mutant: the filter without the acceleration test.
SRV_Eligible_VelocityOnly(sector) == RLess(SRV_min_rs_velocity, sector.rs_velocity)

\* the filter: positive velocity and positive acceleration
SRV_Eligible(sector) ==
    /\ RLess(SRV_min_rs_velocity, sector.rs_velocity)
    /\ RLess(<<0, 1>>, sector.rs_acceleration)

\* the loop over self.sector_rankings[:top_n_sectors * 2] from index i, top
\* being the sectors taken so far
RECURSIVE SRV_TopSectors(_, _, _)
SRV_TopSectors(candidates, i, top) ==
    IF i > Len(candidates) THEN top
    ELSE IF SRV_Eligible(candidates[i])
    THEN IF Len(top) + 1 >= SRV_top_n_sectors THEN Append(top, candidates[i])
         ELSE SRV_TopSectors(candidates, i + 1, Append(top, candidates[i]))
    ELSE SRV_TopSectors(candidates, i + 1, top)

SRV_Weight(sector, total_score) ==
    RMin(RMul(RDiv(sector.composite_score, total_score), SRV_total_equity_exposure),
         SRV_max_sector_weight)

\* the loop closing the positions that are not in top_symbols
RECURSIVE SRV_CloseOthers(_, _, _)
SRV_CloseOthers(p, i, top_symbols) ==
    IF i > Len(SRV_Tickers) THEN p
    ELSE IF p.invested[SRV_Tickers[i]] /\ SRV_Tickers[i] \notin top_symbols
    THEN SRV_CloseOthers(SRV_Liquidate(p, SRV_Tickers[i]), i + 1, top_symbols)
    ELSE SRV_CloseOthers(p, i + 1, top_symbols)

\* the loop over top_sectors: SetHoldings and the entry price
RECURSIVE SRV_OpenTop(_, _, _, _, _)
SRV_OpenTop(p, top, i, total_score, price) ==
    IF i > Len(top) THEN p
    ELSE LET sym == top[i].ticker
             weight == SRV_Weight(top[i], total_score)
         IN SRV_OpenTop([invested |-> [p.invested EXCEPT ![sym] = (weight[1] # 0)],
                         orders |-> Append(p.orders, <<"SetHoldings", sym, weight>>),
                         entry_prices |-> DictSet(p.entry_prices, sym, price[sym])],
                        top, i + 1, total_score, price)

SRV_RebalancePortfolio(price) ==
    LET held == [invested |-> srv_invested, orders |-> <<>>]
        top_sectors ==
            SRV_TopSectors(SubSeq(srv_rankings, 1,
                                  Min(Len(srv_rankings), SRV_top_n_sectors * 2)),
                           1, <<>>)
        total_score == RSum([i \in 1..Len(top_sectors) |-> top_sectors[i].composite_score])
        top_symbols == {top_sectors[i].ticker : i \in 1..Len(top_sectors)}
    IN /\ IF \/ srv_warm
             \/ Len(srv_rankings) < SRV_top_n_sectors
             \/ srv_time - srv_last_rebalance < SRV_rebalance_days
          THEN /\ srv_calls' = [by |-> "RebalancePortfolio", orders |-> <<>>]
               /\ UNCHANGED <<srv_last_rebalance, srv_invested, srv_entry_prices,
                              srv_passed>>
          ELSE /\ srv_last_rebalance' = srv_time
               /\ srv_passed' = Append(srv_passed, srv_time)
               /\ IF Len(top_sectors) = 0
                  THEN \E done \in {SRV_LiquidateAll(held)} :
                          /\ srv_invested' = done.invested
                          /\ srv_calls' = [by |-> "RebalancePortfolio",
                                           orders |-> done.orders]
                          /\ UNCHANGED srv_entry_prices
                  ELSE \E closed \in {SRV_CloseOthers(held, 1, top_symbols)} :
                       \E done \in {SRV_OpenTop([invested |-> closed.invested,
                                                 orders |-> closed.orders,
                                                 entry_prices |-> srv_entry_prices],
                                                top_sectors, 1, total_score, price)} :
                          /\ srv_invested' = done.invested
                          /\ srv_entry_prices' = done.entry_prices
                          /\ srv_calls' = [by |-> "RebalancePortfolio",
                                           orders |-> done.orders]
       /\ UNCHANGED <<srv_warm, srv_time, srv_price_len, srv_rs_len, srv_vel_len,
                      srv_level, srv_velocity, srv_acceleration, srv_rankings,
                      srv_peak_value>>
       /\ UNCHANGED srvOthers

SRV_RebalanceStep ==
    \E price \in [SRV_Sectors -> SRV_EntryPriceLevels] : SRV_RebalancePortfolio(price)

NextSector ==
    \/ SRV_EndWarmUp
    \/ SRV_Tick
    \/ SRV_OnDataStep
    \/ SRV_CalculateStep
    \/ SRV_RebalanceStep


(***************************************************************************)
(* entropy-regime-detector/main.py : EntropyRegimeDetector, the strategy   *)
(*                                                                         *)
(* Securities[symbol].Price is the last close appended for the symbol.     *)
(* The normalized entropy of a window is a logarithm; the model takes its  *)
(* value exactly where it is 0 (every ordinal pattern of the window is the *)
(* same) and from ERD_EntropyGrid, any of its values, where it is          *)
(* positive.  Only one symbol, erd_active, receives bars in a behaviour.   *)
(***************************************************************************)

MaxErdBars == 2
MaxErdReadings == 7

ERD_spy == "SPY"
ERD_qqq == "QQQ"
ERD_iwm == "IWM"
ERD_SymbolSeq == <<ERD_spy, ERD_qqq, ERD_iwm>>
ERD_Symbols == {ERD_SymbolSeq[i] : i \in 1..Len(ERD_SymbolSeq)}

ERD_lookback == 120
ERD_buffer_maxlen == ERD_lookback + ERD_embedding_dim * ERD_tau
ERD_history_maxlen == 24
ERD_min_history == 6
ERD_momentum_lookback == 20
ERD_low_entropy_threshold == <<13, 20>>
ERD_high_entropy_threshold == <<17, 20>>
ERD_max_position_size == <<3, 10>>
ERD_base_stop_loss == <<3, 100>>
ERD_profit_target == <<1, 20>>

\* every window of prices has the ordinal pattern of the window before it:
\* pattern_counts has a single key, each p is 1 and the entropy is 0.  Two
\* windows have the same stable argsort exactly when they order every pair
\* of positions the same way.
ERD_SameOrder(e, f) ==
    \A j, k \in 0..(ERD_embedding_dim - 1) :
        j < k => ((e[j] <= e[k]) <=> (f[j] <= f[k]))
ERD_SinglePattern(prices) ==
    \A i \in ERD_Windows(prices) \ {0} :
        ERD_SameOrder(ERD_Embedding(prices, i - 1), ERD_Embedding(prices, i))

\* the positive values an entropy reading takes
ERD_EntropyGrid == {<<1, 4>>, <<3, 4>>, <<24, 25>>}

\* entropy = self.CalculatePermutationEntropy(prices[-self.lookback:]), given
\* the value it has if it is positive
ERD_Entropy(prices, positive) ==
    LET window == LastN(prices, ERD_lookback)
    IN IF Len(window) < ERD_MinLength THEN None
       ELSE IF ERD_SinglePattern(window) THEN Some(<<0, 1>>)
       ELSE Some(positive)

\* DetectRegimeChange, on self.entropy_history[symbol]: <<regime, confidence>>
ERD_DetectRegimeChange(history) ==
    IF Len(history) < ERD_min_history THEN <<"None", <<0, 1>>>>
    ELSE LET n == Len(history)
             current_entropy == history[n]
             entropy_change ==
                 RSub(current_entropy, RDiv(RSumRange(history, 1, n - 1), RInt(n - 1)))
             regime ==
                 IF RLess(current_entropy, ERD_low_entropy_threshold) THEN "trending"
                 ELSE IF RLess(ERD_high_entropy_threshold, current_entropy) THEN "chaotic"
                 ELSE "transitioning"
             confidence ==
                 IF regime = "trending"
                 THEN RDiv(RSub(ERD_low_entropy_threshold, current_entropy),
                           ERD_low_entropy_threshold)
                 ELSE IF regime = "chaotic"
                 THEN RDiv(RSub(current_entropy, ERD_high_entropy_threshold),
                           RSub(<<1, 1>>, ERD_high_entropy_threshold))
                 ELSE <<3, 10>>
             boosted ==
                 IF RLess(<<1, 20>>, RAbs(entropy_change))
                 THEN RMin(<<1, 1>>, RMul(confidence, <<3, 2>>))
                 ELSE confidence
         IN <<regime, RMin(<<1, 1>>, boosted)>>

\* the trading logic of AnalyzeRegimes for one symbol: None, or the signal
ERD_Signal(regime, confidence, prices, current_holding) ==
    LET n == Len(prices)
        last == prices[n]
        past == prices[n - ERD_momentum_lookback + 1]
        momentum == Rat(last - past, past)
        ma20 == RDiv(RSum([i \in 1..ERD_momentum_lookback |->
                              RInt(prices[n - ERD_momentum_lookback + i])]),
                     RInt(ERD_momentum_lookback))
        deviation == RDiv(RSub(RInt(last), ma20), ma20)
    IN IF regime = "trending" /\ RLess(<<1, 2>>, confidence)
       THEN IF n < ERD_momentum_lookback THEN None
            ELSE IF RLess(<<1, 50>>, momentum) /\ current_holding <= 0
            THEN Some(<<"BUY", confidence>>)
            ELSE IF RLess(momentum, <<-1, 50>>) /\ current_holding >= 0
            THEN Some(<<"SELL", confidence>>)
            ELSE None
       ELSE IF regime = "chaotic" /\ RLess(<<3, 5>>, confidence)
       THEN IF n < ERD_momentum_lookback THEN None
            ELSE IF RLess(deviation, <<-3, 100>>) /\ current_holding <= 0
            THEN Some(<<"BUY", RMul(confidence, <<7, 10>>)>>)
            ELSE IF RLess(<<3, 100>>, deviation) /\ current_holding > 0
            THEN Some(<<"SELL", RMul(confidence, <<7, 10>>)>>)
            ELSE None
       ELSE IF regime = "transitioning"
       THEN IF Abs(current_holding) > 0 THEN Some(<<"REDUCE", <<1, 2>>>>) ELSE None
       ELSE None

\* ---- the bars the host delivers
ERD_QuietPrice == 100
\* the close of the first bar after the warm-up
ERD_FirstPrice == 99
\* bars at the quiet price come first: they fill the buffer up to one below
\* its capacity
ERD_QuietBars == ERD_buffer_maxlen - 1
ERD_QuietReadings == ERD_min_history - 1
\* the readings of the quiet buffer after which the prices start to move:
\* one short of a regime, or a full entropy history
ERD_QuietReadingsSet == {ERD_QuietReadings, ERD_history_maxlen}
ERD_PriceSet == {95, 100, 103, 107, 110}
ERD_ValueLevels == {300, 400, 100000}
\* data.Bars of one slice: the closes by symbol
ERD_Slices ==
    IF erd_warm THEN {[s \in ERD_Symbols |-> ERD_QuietPrice]}
    ELSE IF erd_bars = 0 THEN {[s \in {erd_active} |-> ERD_FirstPrice]}
    ELSE IF erd_bars < ERD_QuietBars THEN {[s \in {erd_active} |-> ERD_QuietPrice]}
    ELSE {<<>>} \cup {[s \in {erd_active} |-> p] : p \in ERD_PriceSet}

ERD_Initialize ==
    /\ erd_warm = TRUE
    /\ erd_active = "None"
    /\ erd_bars = 0
    /\ erd_price_buffer = [s \in ERD_Symbols |-> <<>>]
    /\ erd_entropy_history = [s \in ERD_Symbols |-> <<>>]
    /\ erd_current_regime = [s \in ERD_Symbols |-> "None"]
    /\ erd_regime_confidence = [s \in ERD_Symbols |-> <<0, 1>>]
    /\ erd_entry_prices = <<>>
    /\ erd_stop_losses = <<>>
    /\ erd_quantity = [s \in ERD_Symbols |-> 0]
    /\ erd_calls = [by |-> "Initialize", orders |-> <<>>]
    /\ erd_received = [s \in ERD_Symbols |-> <<>>]
    /\ erd_readings = [s \in ERD_Symbols |-> <<>>]
    /\ erd_signals = <<>>
    /\ erd_buys = <<>>

ERD_EndWarmUp ==
    /\ erd_warm
    /\ erd_warm' = FALSE
    /\ erd_active' \in ERD_Symbols
    /\ UNCHANGED <<erd_bars, erd_price_buffer,
                   erd_entropy_history, erd_current_regime, erd_regime_confidence,
                   erd_entry_prices, erd_stop_losses, erd_quantity, erd_calls,
                   erd_received, erd_readings, erd_signals, erd_buys>>
    /\ UNCHANGED erdOthers

\* ---- ManagePositions.  p carries the holdings, the two dicts and the orders
\* made so far (in ExecuteSignals the log of the BUYs too).
\* Mutant: half of the quantity, rounded up.
ERD_HalfQty_RoundUp(current_qty) == (current_qty + 1) \div 2

\* int(current_qty * 0.5)
ERD_HalfQty(current_qty) == current_qty \div 2

ERD_Liquidate(p, symbol) ==
    [p EXCEPT !.quantity[symbol] = 0,
              !.orders = Append(@, <<"Liquidate", symbol>>)]
ERD_MarketOrder(p, symbol, shares) ==
    [p EXCEPT !.quantity[symbol] = @ + shares,
              !.orders = Append(@, <<"MarketOrder", symbol, shares>>)]

\* one iteration of the loop of ManagePositions
ERD_ManageSymbol(p, symbol, bars) ==
    IF symbol \notin DOMAIN p.entry_prices THEN p
    ELSE IF symbol \notin DOMAIN bars THEN p
    ELSE LET price == RInt(bars[symbol])
             entry == RInt(p.entry_prices[symbol])
             stop == p.stop_losses[symbol]
             current_qty == p.quantity[symbol]
             sell_qty == ERD_HalfQty(current_qty)
             new_stop == RMul(price, <<49, 50>>)
         IN IF current_qty <= 0 THEN p
            ELSE IF RLess(price, stop)
            THEN LET sold == ERD_Liquidate(p, symbol)
                 IN [sold EXCEPT !.entry_prices = DictDel(@, symbol),
                                 !.stop_losses = DictDel(@, symbol)]
            ELSE IF RLeq(RMul(entry, RAdd(<<1, 1>>, ERD_profit_target)), price)
            THEN IF sell_qty > 0
                 THEN [ERD_MarketOrder(p, symbol, -sell_qty)
                          EXCEPT !.stop_losses = DictSet(@, symbol, entry)]
                 ELSE p
            ELSE IF RLess(RMul(entry, <<51, 50>>), price)
            THEN IF RLess(stop, new_stop)
                 THEN [p EXCEPT !.stop_losses = DictSet(@, symbol, new_stop)]
                 ELSE p
            ELSE p

RECURSIVE ERD_ManagePositions(_, _, _)
ERD_ManagePositions(p, i, bars) ==
    IF i > Len(ERD_SymbolSeq) THEN p
    ELSE ERD_ManagePositions(ERD_ManageSymbol(p, ERD_SymbolSeq[i], bars), i + 1, bars)

\* ---- OnData
ERD_OnData(bars) ==
    /\ IF erd_warm
       THEN /\ erd_calls' = [by |-> "OnData", orders |-> <<>>]
            /\ UNCHANGED <<erd_bars, erd_price_buffer, erd_entry_prices,
                           erd_stop_losses, erd_quantity>>
       ELSE \E managed \in
                 {ERD_ManagePositions([quantity |-> erd_quantity,
                                       entry_prices |-> erd_entry_prices,
                                       stop_losses |-> erd_stop_losses,
                                       orders |-> <<>>], 1, bars)} :
               /\ erd_bars' = erd_bars + 1
               /\ erd_price_buffer' =
                      [s \in ERD_Symbols |->
                          IF s \in DOMAIN bars
                          THEN DequeAppend(erd_price_buffer[s], bars[s], ERD_buffer_maxlen)
                          ELSE erd_price_buffer[s]]
               /\ erd_quantity' = managed.quantity
               /\ erd_entry_prices' = managed.entry_prices
               /\ erd_stop_losses' = managed.stop_losses
               /\ erd_calls' = [by |-> "OnData", orders |-> managed.orders]
    /\ erd_received' = [s \in ERD_Symbols |->
                            IF ~erd_warm /\ s \in DOMAIN bars
                            THEN Append(erd_received[s], bars[s])
                            ELSE erd_received[s]]
    /\ erd_signals' = <<>>
    /\ erd_buys' = <<>>
    /\ UNCHANGED <<erd_warm, erd_active, erd_entropy_history,
                   erd_current_regime, erd_regime_confidence, erd_readings>>
    /\ UNCHANGED erdOthers

\* the prices start to move once AnalyzeRegimes has taken one of
\* ERD_QuietReadingsSet readings of the quiet buffer
ERD_OnDataStep ==
    /\ erd_bars < ERD_QuietBars + MaxErdBars
    /\ erd_bars = ERD_QuietBars => Len(erd_readings[erd_active]) \in ERD_QuietReadingsSet
    /\ \E bars \in ERD_Slices : ERD_OnData(bars)

\* ---- AnalyzeRegimes.  st carries the three dicts, the signals so far and the
\* log of the readings.
\* Mutant: the iteration without its test of the buffer's length against
\* self.lookback
ERD_AnalyzeSymbol_AnyLength(st, symbol, positive) ==
    LET prices == erd_price_buffer[symbol]
        entropy == ERD_Entropy(prices, positive[symbol])
        history == DequeAppend(st.history[symbol], Val(entropy), ERD_history_maxlen)
        detected == ERD_DetectRegimeChange(history)
        signal == ERD_Signal(detected[1], detected[2], prices, erd_quantity[symbol])
    IN IF entropy = None THEN st
       ELSE IF detected[1] = "None"
       THEN [st EXCEPT !.history[symbol] = history,
                       !.readings[symbol] = Append(@, Val(entropy))]
       ELSE [history |-> [st.history EXCEPT ![symbol] = history],
             readings |-> [st.readings EXCEPT ![symbol] = Append(@, Val(entropy))],
             regime |-> [st.regime EXCEPT ![symbol] = detected[1]],
             confidence |-> [st.confidence EXCEPT ![symbol] = detected[2]],
             signals |-> IF signal = None THEN st.signals
                         ELSE Append(st.signals, <<symbol, Val(signal)[1], Val(signal)[2]>>)]
\* one iteration of the loop over the symbols
ERD_AnalyzeSymbol(st, symbol, positive) ==
    LET prices == erd_price_buffer[symbol]
        entropy == ERD_Entropy(prices, positive[symbol])
        history == DequeAppend(st.history[symbol], Val(entropy), ERD_history_maxlen)
        detected == ERD_DetectRegimeChange(history)
        signal == ERD_Signal(detected[1], detected[2], prices, erd_quantity[symbol])
    IN IF Len(prices) < ERD_lookback THEN st
       ELSE IF entropy = None THEN st
       ELSE IF detected[1] = "None"
       THEN [st EXCEPT !.history[symbol] = history,
                       !.readings[symbol] = Append(@, Val(entropy))]
       ELSE [history |-> [st.history EXCEPT ![symbol] = history],
             readings |-> [st.readings EXCEPT ![symbol] = Append(@, Val(entropy))],
             regime |-> [st.regime EXCEPT ![symbol] = detected[1]],
             confidence |-> [st.confidence EXCEPT ![symbol] = detected[2]],
             signals |-> IF signal = None THEN st.signals
                         ELSE Append(st.signals, <<symbol, Val(signal)[1], Val(signal)[2]>>)]

RECURSIVE ERD_AnalyzeSymbols(_, _, _)
ERD_AnalyzeSymbols(st, i, positive) ==
    IF i > Len(ERD_SymbolSeq) THEN st
    ELSE ERD_AnalyzeSymbols(ERD_AnalyzeSymbol(st, ERD_SymbolSeq[i], positive), i + 1, positive)

\* ---- ExecuteSignals
\* Mutant: the quotient rounded up instead of truncated
ERD_Shares_RoundUp(portfolio_value, confidence, price) ==
    LET quotient == RDiv(RMul(RInt(portfolio_value),
                              RMul(ERD_max_position_size, confidence)),
                         RInt(price))
    IN IF RLess(RInt(RTrunc(quotient)), quotient) THEN RTrunc(quotient) + 1
       ELSE RTrunc(quotient)
\* shares = int(target_value / price)
ERD_Shares(portfolio_value, confidence, price) ==
    RTrunc(RDiv(RMul(RInt(portfolio_value), RMul(ERD_max_position_size, confidence)),
                RInt(price)))

\* one iteration of the loop over signals.items()
ERD_ExecuteSignal(p, signal, portfolio_value) ==
    LET symbol == signal[1]
        action == signal[2]
        price == erd_price_buffer[symbol][Len(erd_price_buffer[symbol])]
        shares == ERD_Shares(portfolio_value, signal[3], price)
        current_qty == p.quantity[symbol]
        reduce_qty == ERD_HalfQty(current_qty)
    IN IF action = "BUY"
       THEN IF shares > 0
            THEN [ERD_MarketOrder(p, symbol, shares)
                     EXCEPT !.buys = Append(@, [symbol |-> symbol, shares |-> shares,
                                                price |-> price,
                                                value |-> portfolio_value]),
                            !.entry_prices = DictSet(@, symbol, price),
                            !.stop_losses =
                                DictSet(@, symbol,
                                        RMul(RInt(price),
                                             RSub(<<1, 1>>, ERD_base_stop_loss)))]
            ELSE p
       ELSE IF action = "SELL"
       THEN IF current_qty > 0
            THEN LET sold == ERD_Liquidate(p, symbol)
                 IN IF symbol \in DOMAIN p.entry_prices
                    THEN [sold EXCEPT !.entry_prices = DictDel(@, symbol),
                                      !.stop_losses = DictDel(@, symbol)]
                    ELSE sold
            ELSE p
       ELSE IF current_qty > 0 /\ reduce_qty > 0
            THEN ERD_MarketOrder(p, symbol, -reduce_qty)
            ELSE p

RECURSIVE ERD_ExecuteSignals(_, _, _, _)
ERD_ExecuteSignals(p, signals, i, portfolio_value) ==
    IF i > Len(signals) THEN p
    ELSE ERD_ExecuteSignals(ERD_ExecuteSignal(p, signals[i], portfolio_value),
                            signals, i + 1, portfolio_value)

ERD_AnalyzeRegimes(positive, portfolio_value) ==
    /\ \E st \in {ERD_AnalyzeSymbols([history |-> erd_entropy_history,
                                       regime |-> erd_current_regime,
                                       confidence |-> erd_regime_confidence,
                                       signals |-> <<>>,
                                       readings |-> erd_readings], 1, positive)} :
       \E done \in {ERD_ExecuteSignals([quantity |-> erd_quantity,
                                       entry_prices |-> erd_entry_prices,
                                       stop_losses |-> erd_stop_losses,
                                       orders |-> <<>>, buys |-> <<>>],
                                      st.signals, 1, portfolio_value)} :
          /\ erd_entropy_history' = st.history
          /\ erd_readings' = st.readings
          /\ erd_current_regime' = st.regime
          /\ erd_regime_confidence' = st.confidence
          /\ erd_quantity' = done.quantity
          /\ erd_entry_prices' = done.entry_prices
          /\ erd_stop_losses' = done.stop_losses
          /\ erd_calls' = [by |-> "AnalyzeRegimes", orders |-> done.orders]
          /\ erd_signals' = st.signals
          /\ erd_buys' = done.buys
    /\ UNCHANGED <<erd_warm, erd_active, erd_bars, erd_price_buffer, erd_received>>
    /\ UNCHANGED erdOthers

\* AnalyzeRegimes may fill the entropy history while the buffer is quiet;
\* once the prices move it takes up to MaxErdReadings readings in all, or as
\* many more on top of a full history
ERD_MayRead(n) ==
    IF erd_bars <= ERD_QuietBars THEN n < ERD_history_maxlen
    ELSE \/ n < MaxErdReadings
         \/ /\ n >= ERD_history_maxlen
            /\ n < ERD_history_maxlen + MaxErdReadings - ERD_QuietReadings

ERD_AnalyzeStep ==
    /\ \A s \in ERD_Symbols : ERD_MayRead(Len(erd_readings[s]))
    /\ \E e \in ERD_EntropyGrid, portfolio_value \in ERD_ValueLevels :
          ERD_AnalyzeRegimes([s \in ERD_Symbols |-> e], portfolio_value)

NextEntropy ==
    \/ ERD_EndWarmUp
    \/ ERD_OnDataStep
    \/ ERD_AnalyzeStep


-----------------------------------------------------------------------------
(***************************************************************************)
(* basic_sma.py : BasicSMACrossover                                        *)
(*                                                                         *)
(* The indicator values are inputs of on_data, from SmaVals.  The host     *)
(* updates the indicators during the warm-up too, so they can be ready on  *)
(* a warm-up bar.  set_holdings(spy, 1.0) fills at once with a positive    *)
(* quantity, liquidate leaves none.                                        *)
(***************************************************************************)

MaxBsmaBars == 4

\* the quantity set_holdings(self.spy, 1.0) buys
BSMA_FillLevels == {200, 250}

BSMA_initialize ==
    /\ bsma_warm = TRUE
    /\ bsma_fast_ready = FALSE
    /\ bsma_slow_ready = FALSE
    /\ bsma_holdings = 0
    /\ bsma_calls = <<>>
    /\ bsma_bars = <<>>

\* Host: the warm-up period ends.
BSMA_EndWarmUp ==
    /\ bsma_warm
    /\ bsma_warm' = FALSE
    /\ UNCHANGED <<bsma_fast_ready, bsma_slow_ready, bsma_holdings, bsma_calls, bsma_bars>>
    /\ UNCHANGED bsmaOthers

\* Host: the 10-period SMA has its samples.
BSMA_FastReady ==
    /\ ~bsma_fast_ready
    /\ bsma_fast_ready' = TRUE
    /\ UNCHANGED <<bsma_warm, bsma_slow_ready, bsma_holdings, bsma_calls, bsma_bars>>
    /\ UNCHANGED bsmaOthers

\* Host: the 30-period SMA has its samples (after the 10-period one).
BSMA_SlowReady ==
    /\ bsma_fast_ready
    /\ ~bsma_slow_ready
    /\ bsma_slow_ready' = TRUE
    /\ UNCHANGED <<bsma_warm, bsma_fast_ready, bsma_holdings, bsma_calls, bsma_bars>>
    /\ UNCHANGED bsmaOthers

\* The order on_data places past its two guards (lines 31-40).
BSMA_Order(fast_value, slow_value, holdings) ==
    IF fast_value > slow_value
    THEN IF holdings <= 0 THEN <<"set_holdings">> ELSE <<>>
    ELSE IF fast_value < slow_value
    THEN IF holdings > 0 THEN <<"liquidate">> ELSE <<>>
    ELSE <<>>

\* on_data(data) with the indicators showing fast_value and slow_value;
\* filled is the quantity a set_holdings would buy.
BSMA_on_data(fast_value, slow_value, filled) ==
    /\ Len(bsma_bars) < MaxBsmaBars
    /\ LET ready == bsma_fast_ready /\ bsma_slow_ready
           order == IF bsma_warm \/ ~ready THEN <<>>
                    ELSE BSMA_Order(fast_value, slow_value, bsma_holdings)
       IN /\ bsma_calls' = order
          /\ bsma_holdings' = IF order = <<"set_holdings">> THEN filled
                              ELSE IF order = <<"liquidate">> THEN 0
                              ELSE bsma_holdings
          /\ bsma_bars' = IF ready
                          THEN Append(bsma_bars, [fast |-> fast_value, slow |-> slow_value,
                                                  warm |-> bsma_warm,
                                                  holdings |-> bsma_holdings,
                                                  calls |-> order])
                          ELSE bsma_bars
    /\ UNCHANGED <<bsma_warm, bsma_fast_ready, bsma_slow_ready>>
    /\ UNCHANGED bsmaOthers

BSMA_OnDataStep ==
    \E f \in SmaVals, s \in SmaVals, filled \in BSMA_FillLevels : BSMA_on_data(f, s, filled)

NextBasicSMA ==
    \/ BSMA_EndWarmUp
    \/ BSMA_FastReady
    \/ BSMA_SlowReady
    \/ BSMA_OnDataStep

-----------------------------------------------------------------------------
(***************************************************************************)
(* fractal-dimension-breakout/main.py : FractalDimensionBreakout           *)
(*                                                                         *)
(* Hurst exponents are in hundredths, as in CalculateHurstExponent above;  *)
(* prices are whole numbers, the other quantities exact rationals.  The    *)
(* annualized volatility of a window is 0 exactly when its returns are all *)
(* equal and is otherwise an input of the OnData call that changed the     *)
(* window; TotalPortfolioValue and the price of TLT are inputs of OnData   *)
(* too.  Orders fill at once.                                              *)
(***************************************************************************)

FDB_spy == "SPY"
FDB_qqq == "QQQ"
FDB_tlt == "TLT"
FDB_SymbolSeq == <<FDB_spy, FDB_qqq, FDB_tlt>>
FDB_Symbols == {FDB_spy, FDB_qqq, FDB_tlt}
\* the symbols with breakout levels
FDB_BreakoutSeq == <<FDB_spy, FDB_qqq>>
FDB_BreakoutSymbols == {FDB_spy, FDB_qqq}

FDB_buffer_maxlen == FDB_hurst_lookback + 50
FDB_history_maxlen == 48
FDB_trending_threshold == 55
FDB_min_history == 5
FDB_breakout_lookback == 20
FDB_max_position == <<7, 20>>
FDB_base_stop == <<1, 40>>
\* float('inf')
FDB_Inf == <<>>

\* ---- pure functions
\* EstimateMoveDuration(hurst)
FDB_EstimateMoveDuration(hurst) ==
    IF hurst > 50
    THEN RTrunc(RMul(<<10, 1>>, RAdd(<<1, 1>>, RMul(Rat(hurst - 50, 100), <<4, 1>>))))
    ELSE RTrunc(RMul(<<5, 1>>,
                     RSub(<<1, 1>>, RMul(RMul(Rat(50 - hurst, 100), <<3, 1>>), <<1, 2>>))))

\* max(prices), min(prices)
FDB_MaxOf(prices) ==
    CHOOSE m \in {prices[i] : i \in DOMAIN prices} : \A i \in DOMAIN prices : prices[i] <= m
FDB_MinOf(prices) ==
    CHOOSE m \in {prices[i] : i \in DOMAIN prices} : \A i \in DOMAIN prices : prices[i] >= m

\* np.std(np.diff(np.log(prices))) = 0
FDB_FlatReturns(prices) ==
    \A k \in 1..(Len(prices) - 2) : FDB_SameReturn(prices, k, k + 1)

\* threshold_mult = max(0.005, min(0.02, vol * 0.05))
FDB_ThresholdMult(vol) == RMax(<<1, 200>>, RMin(<<1, 50>>, RMul(vol, <<1, 20>>)))

\* price > self.breakout_high[symbol] * (1 + threshold_mult)
FDB_UpsideBreak(price, breakout_high, threshold_mult) ==
    RLess(RMul(RInt(breakout_high), RAdd(<<1, 1>>, threshold_mult)), RInt(price))
\* price < self.breakout_low[symbol] * (1 - threshold_mult); inf * (1 - t) is inf
FDB_DownsideBreak(price, breakout_low, threshold_mult) ==
    \/ breakout_low = FDB_Inf
    \/ /\ breakout_low # FDB_Inf
       /\ RLess(RInt(price), RMul(RInt(Val(breakout_low)), RSub(<<1, 1>>, threshold_mult)))

\* ---- the bars the host delivers
MaxFdbBars == 3
MaxFdbReadings == 6
\* the first bars alternate between two closes, until the buffer can be
\* analysed; AnalyzeFractalDimension reads the same slope from them
FDB_QuietBars == FDB_hurst_lookback
FDB_QuietReadings == FDB_min_history - 1
FDB_QuietClose(n) == IF n % 2 = 0 THEN 100 ELSE 101
FDB_QuietVolatility == <<1, 10>>
FDB_QuietSlope == FDB_trending_threshold + 5
FDB_PriceSet == {95, 100, 105, 110}
FDB_VolatilityGrid == {<<1, 10>>, <<1, 2>>}
FDB_SlopeGrid == {40, 55, 60}
FDB_ValueLevels == {300, 100000}
FDB_TltPrices == {90}

\* during the warm-up a slice carries every symbol, after it the active one
FDB_Slices ==
    IF fdb_warm THEN {[s \in FDB_Symbols |-> FDB_QuietClose(0)]}
    ELSE IF fdb_bars < FDB_QuietBars THEN {[s \in {fdb_active} |-> FDB_QuietClose(fdb_bars)]}
    ELSE {<<>>} \cup {[s \in {fdb_active} |-> p] : p \in FDB_PriceSet}
FDB_Volatilities ==
    IF fdb_bars < FDB_QuietBars THEN {FDB_QuietVolatility} ELSE FDB_VolatilityGrid
FDB_Slopes ==
    IF \A s \in FDB_Symbols : Len(fdb_hurst_history[s]) < FDB_QuietReadings
    THEN {FDB_QuietSlope} ELSE FDB_SlopeGrid

FDB_Initialize ==
    /\ fdb_warm = TRUE
    /\ fdb_active = "None"
    /\ fdb_bars = 0
    /\ fdb_price_buffer = [s \in FDB_Symbols |-> <<>>]
    /\ fdb_hurst_history = [s \in FDB_Symbols |-> <<>>]
    /\ fdb_volatility = [s \in FDB_Symbols |-> <<0, 1>>]
    /\ fdb_breakout_high = [s \in FDB_BreakoutSymbols |-> 0]
    /\ fdb_breakout_low = [s \in FDB_BreakoutSymbols |-> FDB_Inf]
    /\ fdb_entry_prices = <<>>
    /\ fdb_entry_hurst = <<>>
    /\ fdb_expected_duration = <<>>
    /\ fdb_bars_held = <<>>
    /\ fdb_quantity = [s \in FDB_Symbols |-> 0]
    /\ fdb_calls = [by |-> "Initialize", orders |-> <<>>]
    /\ fdb_entered = <<>>

FDB_EndWarmUp ==
    /\ fdb_warm
    /\ fdb_warm' = FALSE
    /\ fdb_active' \in FDB_BreakoutSymbols
    /\ UNCHANGED <<fdb_bars, fdb_price_buffer, fdb_hurst_history, fdb_volatility,
                   fdb_breakout_high, fdb_breakout_low, fdb_entry_prices, fdb_entry_hurst,
                   fdb_expected_duration, fdb_bars_held, fdb_quantity, fdb_calls,
                   fdb_entered>>
    /\ UNCHANGED fdbOthers

\* ---- EnterPosition.  p carries the holdings, the four tracking dicts, the
\* orders and the EnterPosition calls made so far.
FDB_Liquidate(p, symbol) ==
    [p EXCEPT !.quantity[symbol] = 0,
              !.orders = Append(@, <<"Liquidate", symbol>>)]
FDB_MarketOrder(p, symbol, shares) ==
    [p EXCEPT !.quantity[symbol] = @ + shares,
              !.orders = Append(@, <<"MarketOrder", symbol, shares>>)]
FDB_Track(p, symbol, price, hurst, expected_bars) ==
    [p EXCEPT !.entry_prices = DictSet(@, symbol, RInt(price)),
              !.entry_hurst = DictSet(@, symbol, hurst),
              !.expected_duration = DictSet(@, symbol, expected_bars),
              !.bars_held = DictSet(@, symbol, 0)]
FDB_CleanupPosition(p, symbol) ==
    [p EXCEPT !.entry_prices = DictDel(@, symbol),
              !.entry_hurst = DictDel(@, symbol),
              !.expected_duration = DictDel(@, symbol),
              !.bars_held = DictDel(@, symbol)]

FDB_EnterPosition(p, symbol, direction, price, hurst, portfolio_value, tlt_price) ==
    LET confidence == RMin(<<1, 1>>, Rat(Abs(hurst - 50) * 2, 100))
        position_size == RMul(FDB_max_position, confidence)
        target_value == RMul(RInt(portfolio_value), position_size)
        expected_bars == FDB_EstimateMoveDuration(hurst)
        shares == RTrunc(RDiv(target_value, RInt(price)))
        tlt_shares == RTrunc(RDiv(RMul(target_value, <<1, 2>>), RInt(tlt_price)))
        called == [p EXCEPT !.entered = Append(@, <<symbol, direction>>)]
        flat == IF called.quantity[symbol] > 0 THEN FDB_Liquidate(called, symbol)
                ELSE called
    IN IF direction = "LONG"
       THEN IF shares > 0
            THEN FDB_Track(FDB_MarketOrder(called, symbol, shares),
                           symbol, price, hurst, expected_bars)
            ELSE called
       ELSE IF tlt_shares > 0
            THEN FDB_Track(FDB_MarketOrder(flat, FDB_tlt, tlt_shares),
                           FDB_tlt, tlt_price, hurst, expected_bars)
            ELSE flat

\* ---- CheckBreakouts, on the levels and volatilities UpdateBreakoutLevels left
\* one iteration of the loop
FDB_CheckSymbol(p, symbol, bars, levels, portfolio_value, tlt_price) ==
    IF symbol \notin DOMAIN bars THEN p
    ELSE IF Len(fdb_hurst_history[symbol]) < FDB_min_history THEN p
    ELSE LET current_hurst == fdb_hurst_history[symbol][Len(fdb_hurst_history[symbol])]
             price == bars[symbol]
             vol == levels.volatility[symbol]
             threshold_mult == FDB_ThresholdMult(vol)
         IN IF current_hurst < FDB_trending_threshold THEN p
            ELSE IF symbol \in DOMAIN p.entry_prices THEN p
            ELSE IF RLeq(vol, <<0, 1>>) THEN p
            ELSE IF FDB_UpsideBreak(price, levels.high[symbol], threshold_mult)
            THEN FDB_EnterPosition(p, symbol, "LONG", price, current_hurst,
                                   portfolio_value, tlt_price)
            ELSE IF FDB_DownsideBreak(price, levels.low[symbol], threshold_mult)
            THEN FDB_EnterPosition(p, symbol, "HEDGE", price, current_hurst,
                                   portfolio_value, tlt_price)
            ELSE p

RECURSIVE FDB_CheckBreakouts(_, _, _, _, _, _)
FDB_CheckBreakouts(p, i, bars, levels, portfolio_value, tlt_price) ==
    IF i > Len(FDB_BreakoutSeq) THEN p
    ELSE FDB_CheckBreakouts(FDB_CheckSymbol(p, FDB_BreakoutSeq[i], bars, levels,
                                            portfolio_value, tlt_price),
                            i + 1, bars, levels, portfolio_value, tlt_price)

\* ---- ManagePositions
\* one iteration of the loop over the keys of entry_prices
FDB_ManageSymbol(p, symbol, bars) ==
    IF symbol \notin DOMAIN p.entry_prices THEN p
    ELSE IF symbol \notin DOMAIN bars THEN p
    ELSE LET price == RInt(bars[symbol])
             entry == p.entry_prices[symbol]
             entry_h == p.entry_hurst[symbol]
             expected_dur == p.expected_duration[symbol]
             held_bars == (IF symbol \in DOMAIN p.bars_held THEN p.bars_held[symbol]
                           ELSE 0) + 1
             held == [p EXCEPT !.bars_held = DictSet(@, symbol, held_bars)]
             current_qty == p.quantity[symbol]
             pnl_pct == IF current_qty > 0 THEN RDiv(RSub(price, entry), entry)
                        ELSE RDiv(RSub(entry, price), entry)
             stop_mult == IF entry_h > 50 THEN RAdd(<<1, 1>>, Rat(entry_h - 50, 100))
                          ELSE <<1, 1>>
             current_stop == RMul(FDB_base_stop, stop_mult)
             duration_ratio == Rat(held_bars, expected_dur)
             sell_qty == RTrunc(RMul(RInt(Abs(current_qty)), <<2, 5>>))
             partial ==
                 IF /\ RLeq(<<4, 5>>, duration_ratio)
                    /\ RLess(<<1, 50>>, pnl_pct)
                    /\ sell_qty > 0
                 THEN FDB_MarketOrder(held, symbol,
                                      IF current_qty > 0 THEN -sell_qty ELSE sell_qty)
                 ELSE held
             trailed ==
                 IF RLess(<<3, 100>>, pnl_pct) /\ symbol \in DOMAIN partial.entry_prices
                 THEN [partial EXCEPT !.entry_prices =
                          DictSet(@, symbol,
                                  RAdd(entry, RMul(RSub(price, entry), <<3, 10>>)))]
                 ELSE partial
         IN IF current_qty = 0 THEN FDB_CleanupPosition(held, symbol)
            ELSE IF RLess(pnl_pct, RNeg(current_stop))
            THEN FDB_CleanupPosition(FDB_Liquidate(held, symbol), symbol)
            ELSE IF RLeq(<<3, 2>>, duration_ratio)
            THEN FDB_CleanupPosition(FDB_Liquidate(held, symbol), symbol)
            ELSE trailed

RECURSIVE FDB_ManagePositions(_, _, _)
FDB_ManagePositions(p, i, bars) ==
    IF i > Len(FDB_SymbolSeq) THEN p
    ELSE FDB_ManagePositions(FDB_ManageSymbol(p, FDB_SymbolSeq[i], bars), i + 1, bars)

\* ---- UpdateBreakoutLevels, on the buffers after the appends: the levels and
\* the volatilities it leaves.  The volatility of a window that the slice
\* did not change is what it was.
FDB_UpdateBreakoutLevels(buffer, bars, vol) ==
    LET window(s) == LastN(buffer[s], FDB_breakout_lookback)
        updated(s) == s \in FDB_BreakoutSymbols /\ Len(buffer[s]) >= FDB_breakout_lookback
    IN [high |-> [s \in FDB_BreakoutSymbols |->
                     IF updated(s) THEN FDB_MaxOf(window(s)) ELSE fdb_breakout_high[s]],
        low |-> [s \in FDB_BreakoutSymbols |->
                    IF updated(s) THEN Some(FDB_MinOf(window(s))) ELSE fdb_breakout_low[s]],
        volatility |-> [s \in FDB_Symbols |->
                           IF ~updated(s) THEN fdb_volatility[s]
                           ELSE IF FDB_FlatReturns(window(s)) THEN <<0, 1>>
                           ELSE IF s \in DOMAIN bars THEN vol
                           ELSE fdb_volatility[s]]]

\* ---- OnData
FDB_OnData(bars, vol, portfolio_value, tlt_price) ==
    /\ IF fdb_warm
       THEN /\ fdb_calls' = [by |-> "OnData", orders |-> <<>>]
            /\ fdb_entered' = <<>>
            /\ UNCHANGED <<fdb_bars, fdb_price_buffer, fdb_volatility, fdb_breakout_high,
                           fdb_breakout_low, fdb_entry_prices, fdb_entry_hurst,
                           fdb_expected_duration, fdb_bars_held, fdb_quantity>>
       ELSE \E buffer \in {[s \in FDB_Symbols |->
                              IF s \in DOMAIN bars
                              THEN DequeAppend(fdb_price_buffer[s], bars[s],
                                               FDB_buffer_maxlen)
                              ELSE fdb_price_buffer[s]]} :
            \E levels \in {FDB_UpdateBreakoutLevels(buffer, bars, vol)} :
            \E checked \in {FDB_CheckBreakouts([quantity |-> fdb_quantity,
                                                entry_prices |-> fdb_entry_prices,
                                                entry_hurst |-> fdb_entry_hurst,
                                                expected_duration |-> fdb_expected_duration,
                                                bars_held |-> fdb_bars_held,
                                                orders |-> <<>>,
                                                entered |-> <<>>],
                                               1, bars, levels, portfolio_value,
                                               tlt_price)} :
            \E managed \in {FDB_ManagePositions(checked, 1, bars)} :
               /\ fdb_bars' = fdb_bars + 1
               /\ fdb_price_buffer' = buffer
               /\ fdb_breakout_high' = levels.high
               /\ fdb_breakout_low' = levels.low
               /\ fdb_volatility' = levels.volatility
               /\ fdb_quantity' = managed.quantity
               /\ fdb_entry_prices' = managed.entry_prices
               /\ fdb_entry_hurst' = managed.entry_hurst
               /\ fdb_expected_duration' = managed.expected_duration
               /\ fdb_bars_held' = managed.bars_held
               /\ fdb_calls' = [by |-> "OnData", orders |-> managed.orders]
               /\ fdb_entered' = managed.entered
    /\ UNCHANGED <<fdb_warm, fdb_active, fdb_hurst_history>>
    /\ UNCHANGED fdbOthers

\* the prices start to move once AnalyzeFractalDimension has taken
\* FDB_QuietReadings readings
FDB_OnDataStep ==
    /\ fdb_bars < FDB_QuietBars + MaxFdbBars
    /\ fdb_bars >= FDB_QuietBars => Len(fdb_hurst_history[fdb_active]) >= FDB_QuietReadings
    /\ \E bars \in FDB_Slices, vol \in FDB_Volatilities,
          portfolio_value \in FDB_ValueLevels, tlt_price \in FDB_TltPrices :
          FDB_OnData(bars, vol, portfolio_value, tlt_price)

\* ---- AnalyzeFractalDimension, linregress returning slope
FDB_AnalyzeFractalDimension(slope) ==
    /\ fdb_hurst_history' =
          [s \in FDB_Symbols |->
              LET hurst == FDB_CalculateHurstExponent(fdb_price_buffer[s], slope)
              IN IF Len(fdb_price_buffer[s]) < FDB_hurst_lookback THEN fdb_hurst_history[s]
                 ELSE IF hurst = None THEN fdb_hurst_history[s]
                 ELSE DequeAppend(fdb_hurst_history[s], Val(hurst), FDB_history_maxlen)]
    /\ fdb_calls' = [by |-> "AnalyzeFractalDimension", orders |-> <<>>]
    /\ fdb_entered' = <<>>
    /\ UNCHANGED <<fdb_warm, fdb_active, fdb_bars, fdb_price_buffer, fdb_volatility,
                   fdb_breakout_high, fdb_breakout_low, fdb_entry_prices, fdb_entry_hurst,
                   fdb_expected_duration, fdb_bars_held, fdb_quantity>>
    /\ UNCHANGED fdbOthers

FDB_AnalyzeStep ==
    /\ \A s \in FDB_Symbols : Len(fdb_hurst_history[s]) < MaxFdbReadings
    /\ \E slope \in FDB_Slopes : FDB_AnalyzeFractalDimension(slope)

NextBreakout ==
    \/ FDB_EndWarmUp
    \/ FDB_OnDataStep
    \/ FDB_AnalyzeStep

-----------------------------------------------------------------------------
(* Specifications: one per strategy, all from the constructed state. *)

Init ==
    /\ SMA_initialize
    /\ ICD_Initialize
    /\ PE_Init
    /\ Hurst_Init
    /\ VPIN_Initialize
    /\ SRV_Initialize
    /\ ERD_Initialize
    /\ BSMA_initialize
    /\ FDB_Initialize

SpecSMA == Init /\ [][NextSMA]_vars
SpecDispersion == Init /\ [][NextDispersion]_vars
SpecPermutationEntropy == Init /\ [][NextPermutationEntropy]_vars
SpecHurst == Init /\ [][NextHurst]_vars
SpecVPIN == Init /\ [][NextVPIN]_vars
SpecSector == Init /\ [][NextSector]_vars
SpecEntropy == Init /\ [][NextEntropy]_vars
SpecBasicSMA == Init /\ [][NextBasicSMA]_vars
SpecBreakout == Init /\ [][NextBreakout]_vars
\* the host keeps delivering slices and firing the scheduled analysis
SpecBreakoutFair ==
    Init /\ [][NextBreakout]_vars
         /\ WF_vars(FDB_EndWarmUp) /\ WF_vars(FDB_OnDataStep) /\ WF_vars(FDB_AnalyzeStep)

-----------------------------------------------------------------------------
(* C10: over the on_data calls made outside warm-up with both indicators
   ready, set_holdings is called exactly on a bar whose predecessor had
   fast <= slow, that has fast > slow, with the portfolio not invested;
   liquidate exactly on a bar whose predecessor had fast >= slow, that has
   fast < slow, with the portfolio invested; no other bar places an order,
   and the first ready bar places none. *)
C10_BuyBar(i) ==
    /\ i > 1
    /\ sma_bars[i-1].fast <= sma_bars[i-1].slow
    /\ sma_bars[i].fast > sma_bars[i].slow
    /\ ~sma_bars[i].invested

C10_SellBar(i) ==
    /\ i > 1
    /\ sma_bars[i-1].fast >= sma_bars[i-1].slow
    /\ sma_bars[i].fast < sma_bars[i].slow
    /\ sma_bars[i].invested

C10_CrossoverOrders ==
    \A i \in 1..Len(sma_bars) :
        /\ (sma_bars[i].calls = <<"set_holdings">>) <=> C10_BuyBar(i)
        /\ (sma_bars[i].calls = <<"liquidate">>) <=> C10_SellBar(i)
        /\ sma_bars[i].calls \in {<<>>, <<"set_holdings">>, <<"liquidate">>}
        /\ (i = 1 => sma_bars[i].calls = <<>>)

\* A buy on a bullish crossover followed later by a sell on a bearish one.
C10_Witness ==
    \E i, j \in 1..Len(sma_bars) :
        /\ i < j
        /\ sma_bars[i].calls = <<"set_holdings">>
        /\ sma_bars[j].calls = <<"liquidate">>

-----------------------------------------------------------------------------
\* Sum of the weights of the SetHoldings calls in a list of order calls.
RECURSIVE SumWeights(_)
SumWeights(orders) ==
    IF orders = <<>> THEN 0
    ELSE (IF Head(orders).op = "SetHoldings" THEN Head(orders).weight ELSE 0)
         + SumWeights(Tail(orders))

SetHoldingsOf(orders) == {orders[i] : i \in {j \in 1..Len(orders) : orders[j].op = "SetHoldings"}}

(* C7: in every RebalancePortfolio call made with position_type
   DISPERSION_LONG or DISPERSION_SHORT, the target weights passed to
   SetHoldings for SPY and the eight sector ETFs sum to zero. *)
C7_MarketNeutral ==
    (/\ icd_calls.by = "RebalancePortfolio"
     /\ icd_position_type \in {"DISPERSION_LONG", "DISPERSION_SHORT"})
    => SumWeights(icd_calls.orders) = 0

(* C8: when ExecuteDispersionTrade found current_signal above
   zscore_threshold / 2, the RebalancePortfolio that follows sets every
   sector weight >= 0 and the SPY weight <= 0; when it found it below
   -zscore_threshold / 2, the SPY weight >= 0 and every sector weight <= 0.
   With the position type set by that call still in force, all nine symbols
   get a target. *)
C8_TradeDirection ==
    icd_calls.by = "RebalancePortfolio" =>
        /\ icd_exec_signal = "high" =>
              /\ \A o \in SetHoldingsOf(icd_calls.orders) :
                    IF o.symbol = ICD_spy THEN o.weight <= 0 ELSE o.weight >= 0
              /\ icd_position_type # "FLAT" =>
                    {o.symbol : o \in SetHoldingsOf(icd_calls.orders)} = ICD_Symbols
        /\ icd_exec_signal = "low" =>
              /\ \A o \in SetHoldingsOf(icd_calls.orders) :
                    IF o.symbol = ICD_spy THEN o.weight >= 0 ELSE o.weight <= 0
              /\ icd_position_type # "FLAT" =>
                    {o.symbol : o \in SetHoldingsOf(icd_calls.orders)} = ICD_Symbols

\* A rebalance after a high reading that went long the sectors and short SPY.
C8_Witness ==
    /\ icd_calls.by = "RebalancePortfolio"
    /\ icd_exec_signal = "high"
    /\ \E o \in SetHoldingsOf(icd_calls.orders) : o.symbol = ICD_spy /\ o.weight < 0
    /\ \E o \in SetHoldingsOf(icd_calls.orders) : o.symbol # ICD_spy /\ o.weight > 0

-----------------------------------------------------------------------------
PE_StrictlyIncreasing(prices) == \A i \in 1..(Len(prices) - 1) : prices[i] < prices[i+1]

PE_OnePattern(prices) ==
    \A i, j \in ERD_Windows(prices) :
        ERD_Pattern(ERD_Embedding(prices, i)) = ERD_Pattern(ERD_Embedding(prices, j))

(* C5: CalculatePermutationEntropy returns None or a value between 0 and 1
   inclusive; it returns 0 when every embedding window has the same ordinal
   pattern (a strictly increasing series for one); it returns None exactly
   when the sequence is shorter than embedding_dim + (embedding_dim - 1) * tau. *)
C5_EntropyRange ==
    pe_result # <<>> =>
        LET v == pe_result[1].value IN
        /\ (v = None) <=> (Len(pe_prices) < 5 + (5 - 1) * 1)
        /\ v # None =>
              /\ ERD_EntropyAtLeast0(Val(v))
              /\ ERD_EntropyAtMost1(Val(v))
              /\ PE_OnePattern(pe_prices) => ERD_EntropyIsZero(Val(v))
              /\ PE_StrictlyIncreasing(pe_prices) => ERD_EntropyIsZero(Val(v))

\* The function returned 0 for a strictly increasing series.
C5_Witness ==
    /\ pe_result # <<>>
    /\ pe_result[1].value # None
    /\ PE_StrictlyIncreasing(pe_prices)
    /\ ERD_EntropyIsZero(Val(pe_result[1].value))

\* The function returned a value strictly between 0 and 1.
C5_WitnessMixed ==
    /\ pe_result # <<>>
    /\ pe_result[1].value # None
    /\ ~ERD_EntropyIsZero(Val(pe_result[1].value))

-----------------------------------------------------------------------------
\* The last hurst_lookback prices of the argument.
Hurst_Window == SubSeq(hurst_prices, Len(hurst_prices) - 100 + 1, Len(hurst_prices))

(* C6: CalculateHurstExponent returns None or a value H with
   0.01 <= H <= 0.99 whatever the regression slope is, and it returns None
   whenever fewer than hurst_lookback prices are supplied or fewer than 3
   lags yield a rescaled-range value. *)
C6_HurstRange ==
    hurst_result # <<>> =>
        LET v == hurst_result[1].value IN
        /\ v # None => (1 <= Val(v) /\ Val(v) <= 99)
        /\ Len(hurst_prices) < 100 => v = None
        /\ (Len(hurst_prices) >= 100 /\ Cardinality(FDB_RsLags(Hurst_Window)) < 3) => v = None

\* A slope below 0 came back clamped, from exactly three lags.
C6_Witness ==
    /\ hurst_result # <<>>
    /\ hurst_result[1].slope < 0
    /\ hurst_result[1].value # None
    /\ Cardinality(FDB_RsLags(Hurst_Window)) = 3

\* Enough prices, but no lag with a rescaled-range value: None.
C6_WitnessNone ==
    /\ hurst_result # <<>>
    /\ Len(hurst_prices) >= 100
    /\ hurst_result[1].value = None

-----------------------------------------------------------------------------
(* C4: every completed bucket in bucket_history has 0 <= buy_volume <=
   bucket_size, buy_volume + sell_volume = bucket_size and order_imbalance
   <= bucket_size; every value in vpin_history, and every value an OnData
   call appended to it, is a number (not None) between 0 and 1; and a value
   was appended only while bucket_history held exactly n_buckets buckets. *)
VPIN_BucketInRange(b) ==
    /\ RLeq(<<0, 1>>, b.buy_volume)
    /\ RLeq(b.buy_volume, RInt(VPIN_bucket_size))
    /\ RAdd(b.buy_volume, b.sell_volume) = RInt(VPIN_bucket_size)
    /\ RLeq(b.order_imbalance, RInt(VPIN_bucket_size))
VPIN_InUnitInterval(v) == IsNumber(v) /\ RLeq(<<0, 1>>, v) /\ RLeq(v, <<1, 1>>)
C4_BucketsAndVpinInRange ==
    /\ \A s \in VPIN_Symbols :
         /\ \A i \in 1..Len(vpin_bucket_history[s]) :
                VPIN_BucketInRange(vpin_bucket_history[s][i])
         /\ \A i \in 1..Len(vpin_history[s]) : VPIN_InUnitInterval(vpin_history[s][i])
    /\ \A i \in 1..Len(vpin_appended) :
         /\ VPIN_InUnitInterval(vpin_appended[i].value)
         /\ vpin_appended[i].buckets = VPIN_n_buckets

\* an OnData call has appended a VPIN strictly between 0 and 1 that comes from
\* buckets cut out of bars with overflow (a buy volume that is not whole)
C4_Witness ==
    /\ \E i \in 1..Len(vpin_appended) :
         /\ vpin_appended[i].symbol = VPIN_spy
         /\ RLess(<<0, 1>>, vpin_appended[i].value)
         /\ RLess(vpin_appended[i].value, <<1, 1>>)
    /\ \E i \in 1..Len(vpin_bucket_history[VPIN_spy]) :
         vpin_bucket_history[VPIN_spy][i].buy_volume[2] > 1

\* the deque has wrapped: more than n_buckets buckets were completed
C4_WitnessWrapped ==
    /\ Len(vpin_history[VPIN_spy]) > 1
    /\ Len(vpin_bucket_history[VPIN_spy]) = VPIN_n_buckets

(* C3: entry_prices, entry_vpin and stop_losses have the same key set, every
   key is a symbol held with quantity > 0, and a symbol that the last OnData
   closed (stop, profit target, VPIN exit, or quantity <= 0) is in none of
   the three. *)
C3_TrackingDictsMatchPositions ==
    /\ DOMAIN vpin_entry_prices = DOMAIN vpin_entry_vpin
    /\ DOMAIN vpin_entry_vpin = DOMAIN vpin_stop_losses
    /\ \A s \in DOMAIN vpin_entry_prices : vpin_quantity[s] > 0
    /\ \A i \in 1..Len(vpin_exits) :
         vpin_exits[i].symbol \notin
            DOMAIN vpin_entry_prices \cup DOMAIN vpin_entry_vpin \cup DOMAIN vpin_stop_losses

VPIN_ExitedBy(why) ==
    \E i \in 1..Len(vpin_exits) : vpin_exits[i].symbol = VPIN_spy /\ vpin_exits[i].why = why
C3_Witness == vpin_calls.by = "OnData" /\ VPIN_ExitedBy("vpin")
C3_WitnessStop == vpin_calls.by = "OnData" /\ VPIN_ExitedBy("stop")
C3_WitnessTarget == vpin_calls.by = "OnData" /\ VPIN_ExitedBy("target")
\* a position is open after OnData, its stop trailed above the initial one
C3_WitnessOpen ==
    /\ vpin_calls.by = "OnData"
    /\ VPIN_spy \in DOMAIN vpin_entry_prices
    /\ RLess(RMul(RInt(vpin_entry_prices[VPIN_spy]), <<49, 50>>), vpin_stop_losses[VPIN_spy])


\* ---------------------------------------------------------------------------
\* SectorRotationVelocity: positions and entry prices
\* ---------------------------------------------------------------------------

\* C1: after every callback, a sector symbol is a key of entry_prices exactly
\* when its position is invested.
C1_EntryPricesMatchPositions ==
    \A t \in SRV_Sectors : (t \in DOMAIN srv_entry_prices) <=> srv_invested[t]


\* the sectors RebalancePortfolio called SetHoldings for, in the last callback
SRV_SetHoldingsCalls ==
    {i \in 1..Len(srv_calls.orders) : srv_calls.orders[i][1] = "SetHoldings"}
SRV_Chosen == {srv_calls.orders[i][2] : i \in SRV_SetHoldingsCalls}
SRV_Accelerating(t) ==
    \E i \in 1..Len(srv_rankings) :
        /\ srv_rankings[i].ticker = t
        /\ RLess(<<0, 1>>, srv_rankings[i].rs_velocity)
        /\ RLess(<<0, 1>>, srv_rankings[i].rs_acceleration)

\* C9: every SetHoldings call of RebalancePortfolio is for a sector ranked with
\* rs_velocity > 0 and rs_acceleration > 0, at most top_n_sectors sectors get a
\* weight in one rebalance, and after a rebalance that chose at least one
\* sector no sector outside the chosen ones is invested.
C9_LongOnlyAccelerating ==
    srv_calls.by = "RebalancePortfolio" =>
        /\ \A t \in SRV_Chosen : SRV_Accelerating(t)
        /\ Cardinality(SRV_SetHoldingsCalls) <= SRV_top_n_sectors
        /\ SRV_Chosen # {} => \A t \in SRV_Sectors : srv_invested[t] => t \in SRV_Chosen

\* a rebalance that chose top_n_sectors sectors, passed over a fourth that
\* accelerates too, and holds exactly the chosen ones
C9_Witness ==
    /\ srv_calls.by = "RebalancePortfolio"
    /\ Cardinality(SRV_Chosen) = SRV_top_n_sectors
    /\ \E t \in SRV_Sectors \ SRV_Chosen : SRV_Accelerating(t)
    /\ \A t \in SRV_Sectors : srv_invested[t] <=> t \in SRV_Chosen

\* a rebalance that closed a held sector and passed over a sector whose
\* velocity is positive while its acceleration is not
C9_WitnessClosed ==
    /\ srv_calls.by = "RebalancePortfolio"
    /\ SRV_Chosen # {}
    /\ \E i \in 1..Len(srv_calls.orders) :
          /\ srv_calls.orders[i][1] = "Liquidate"
          /\ Len(srv_calls.orders[i]) = 2
          /\ srv_calls.orders[i][2] \notin SRV_Chosen
    /\ \E i \in 1..Len(srv_rankings) :
          /\ RLess(<<0, 1>>, srv_rankings[i].rs_velocity)
          /\ ~RLess(<<0, 1>>, srv_rankings[i].rs_acceleration)

\* a rebalance that found no accelerating sector and liquidated everything
C9_WitnessDefensive ==
    /\ srv_calls = [by |-> "RebalancePortfolio", orders |-> <<<<"Liquidate">>>>]
    /\ srv_entry_prices # <<>>


\* ---------------------------------------------------------------------------
\* EntropyRegimeDetector: positions and the tracking dicts
\* ---------------------------------------------------------------------------

\* C2: after every OnData and every AnalyzeRegimes, for each of SPY, QQQ and
\* IWM the symbol is a key of entry_prices iff it is a key of stop_losses iff
\* the portfolio quantity of the symbol is greater than zero.
C2_TrackingDictsMatchPositions ==
    \A s \in ERD_Symbols :
        /\ (s \in DOMAIN erd_entry_prices) <=> (s \in DOMAIN erd_stop_losses)
        /\ (s \in DOMAIN erd_stop_losses) <=> (erd_quantity[s] > 0)

ERD_Ordered(by, order) ==
    /\ erd_calls.by = by
    /\ \E i \in 1..Len(erd_calls.orders) : erd_calls.orders[i] = order

\* a REDUCE of a position of more than one share: part of it is sold and
\* the symbol stays in both dicts
C2_Witness ==
    \E s \in ERD_Symbols :
        /\ erd_current_regime[s] = "transitioning"
        /\ \E n \in 1..erd_quantity[s] : ERD_Ordered("AnalyzeRegimes", <<"MarketOrder", s, -n>>)
        /\ s \in DOMAIN erd_entry_prices

\* a BUY
C2_WitnessBuy ==
    \E s \in ERD_Symbols :
        /\ ERD_Ordered("AnalyzeRegimes", <<"MarketOrder", s, erd_quantity[s]>>)
        /\ erd_quantity[s] > 0
\* a SELL
C2_WitnessSell ==
    \E s \in ERD_Symbols :
        /\ ERD_Ordered("AnalyzeRegimes", <<"Liquidate", s>>)
        /\ s \notin DOMAIN erd_entry_prices
\* a stop-loss exit
C2_WitnessStop ==
    \E s \in ERD_Symbols :
        /\ ERD_Ordered("OnData", <<"Liquidate", s>>)
        /\ s \notin DOMAIN erd_stop_losses
\* partial profit-taking: half is sold and the stop moves to the entry price
C2_WitnessPartial ==
    \E s \in ERD_Symbols :
        /\ \E n \in 1..erd_quantity[s] : ERD_Ordered("OnData", <<"MarketOrder", s, -n>>)
        /\ s \in DOMAIN erd_entry_prices
        /\ erd_stop_losses[s] = RInt(erd_entry_prices[s])
\* a trailing stop above the initial one
C2_WitnessTrailing ==
    \E s \in DOMAIN erd_stop_losses :
        /\ RLess(RInt(erd_entry_prices[s]), erd_stop_losses[s])
        /\ erd_quantity[s] > 0
\* a position of one share that REDUCE and profit-taking leave whole
C2_WitnessOneShare ==
    \E s \in ERD_Symbols :
        /\ erd_quantity[s] = 1
        /\ erd_current_regime[s] = "transitioning"
        /\ erd_calls = [by |-> "AnalyzeRegimes", orders |-> <<>>]

-----------------------------------------------------------------------------
(* C11: set_holdings is called only on a bar where the fast SMA is above the
   slow SMA and on the previous ready bar it was not above; liquidate only
   on a bar where the fast SMA is below the slow SMA and on the previous
   ready bar it was not below. *)
C11_OrdersAtCrossovers ==
    \A i \in 1..Len(bsma_bars) :
        /\ bsma_bars[i].calls = <<"set_holdings">> =>
              /\ bsma_bars[i].fast > bsma_bars[i].slow
              /\ i > 1
              /\ ~(bsma_bars[i-1].fast > bsma_bars[i-1].slow)
        /\ bsma_bars[i].calls = <<"liquidate">> =>
              /\ bsma_bars[i].fast < bsma_bars[i].slow
              /\ i > 1
              /\ ~(bsma_bars[i-1].fast < bsma_bars[i-1].slow)

-----------------------------------------------------------------------------
(* C12: the rolling buffers of the entropy strategy are sliding windows:
   price_buffer[symbol] never holds more than lookback + embedding_dim * tau
   (125) closes and is exactly the most recent closes of the symbol that
   OnData received outside the warm-up, in arrival order; entropy_history
   [symbol] never holds more than 24 readings and is exactly the most recent
   readings appended, the oldest dropped first. *)
C12_BuffersAreSlidingWindows ==
    \A s \in ERD_Symbols :
        /\ Len(erd_price_buffer[s]) <= ERD_buffer_maxlen
        /\ erd_price_buffer[s] = LastN(erd_received[s], ERD_buffer_maxlen)
        /\ Len(erd_entropy_history[s]) <= ERD_history_maxlen
        /\ erd_entropy_history[s] = LastN(erd_readings[s], ERD_history_maxlen)

\* both windows of a symbol have slid: the first close and the first reading
\* are gone, and the newest of each differs from the one dropped
C12_Witness ==
    \E s \in ERD_Symbols :
        /\ Len(erd_received[s]) > ERD_buffer_maxlen
        /\ Len(erd_price_buffer[s]) = ERD_buffer_maxlen
        /\ erd_price_buffer[s][ERD_buffer_maxlen] # erd_received[s][1]
        /\ Len(erd_readings[s]) > ERD_history_maxlen
        /\ Len(erd_entropy_history[s]) = ERD_history_maxlen
        /\ erd_entropy_history[s][ERD_history_maxlen] # erd_readings[s][1]

\* closes that arrive during the warm-up are not buffered
C12_WitnessWarmUp ==
    /\ erd_warm
    /\ erd_calls.by = "OnData"
    /\ \A s \in ERD_Symbols : erd_price_buffer[s] = <<>>

-----------------------------------------------------------------------------
\* the symbol has a signal in the log, or an order among the calls
ERD_Signalled(signals, symbol) == \E i \in DOMAIN signals : signals[i][1] = symbol
ERD_OrderedFor(orders, symbol) == \E i \in DOMAIN orders : orders[i][2] = symbol

(* C13: when AnalyzeRegimes runs while price_buffer[symbol] holds fewer than
   lookback (120) prices, entropy_history, current_regime and
   regime_confidence of that symbol are unchanged and no signal or order is
   produced for it; when the buffer is long enough but entropy_history
   [symbol] holds fewer than 6 readings after the append, DetectRegimeChange
   returns (None, 0), current_regime and regime_confidence are unchanged and
   no order is placed for the symbol. *)
C13_ShortHistoriesAreSkipped ==
    [][erd_calls'.by = "AnalyzeRegimes" =>
          \A s \in ERD_Symbols :
              /\ Len(erd_price_buffer[s]) < ERD_lookback =>
                    /\ erd_entropy_history'[s] = erd_entropy_history[s]
                    /\ erd_current_regime'[s] = erd_current_regime[s]
                    /\ erd_regime_confidence'[s] = erd_regime_confidence[s]
                    /\ ~ERD_Signalled(erd_signals', s)
                    /\ ~ERD_OrderedFor(erd_calls'.orders, s)
              /\ (/\ Len(erd_price_buffer[s]) >= ERD_lookback
                  /\ Len(erd_entropy_history'[s]) < ERD_min_history) =>
                    /\ ERD_DetectRegimeChange(erd_entropy_history'[s]) = <<"None", <<0, 1>>>>
                    /\ erd_current_regime'[s] = erd_current_regime[s]
                    /\ erd_regime_confidence'[s] = erd_regime_confidence[s]
                    /\ ~ERD_Signalled(erd_signals', s)
                    /\ ~ERD_OrderedFor(erd_calls'.orders, s)]_vars

\* AnalyzeRegimes has run past the warm-up: one symbol has a long enough
\* buffer and a history still short of 6 readings, another has bars but
\* fewer than 120
C13_Witness ==
    /\ erd_calls.by = "AnalyzeRegimes"
    /\ ~erd_warm
    /\ \E s \in ERD_Symbols :
          /\ Len(erd_price_buffer[s]) >= ERD_lookback
          /\ Len(erd_entropy_history[s]) \in 1..(ERD_min_history - 1)
          /\ erd_current_regime[s] = "None"
    /\ \E s \in ERD_Symbols :
          /\ Len(erd_price_buffer[s]) < ERD_lookback
          /\ erd_entropy_history[s] = <<>>

\* AnalyzeRegimes has run on a buffer that holds bars, but fewer than 120
C13_WitnessShortBuffer ==
    /\ erd_calls.by = "AnalyzeRegimes"
    /\ \E s \in ERD_Symbols :
          /\ Len(erd_price_buffer[s]) \in (ERD_MinLength + 1)..(ERD_lookback - 1)
          /\ erd_entropy_history[s] = <<>>
          /\ erd_current_regime[s] = "None"

-----------------------------------------------------------------------------
(* C14: every BUY executed by ExecuteSignals orders shares with
   shares * price <= max_position_size * TotalPortfolioValue, on a holding
   that was <= 0, so the value of the symbol's position right after the BUY
   is at most 30% of the total portfolio value. *)
C14_BuysWithinMaxPosition ==
    \A i \in DOMAIN erd_buys :
        LET buy == erd_buys[i]
            limit == RMul(ERD_max_position_size, RInt(buy.value))
        IN /\ RLeq(RInt(buy.shares * buy.price), limit)
           /\ erd_quantity[buy.symbol] <= buy.shares
           /\ RLeq(RInt(erd_quantity[buy.symbol] * buy.price), limit)

\* a BUY of several shares has been executed, and the limit would not have
\* allowed one share more
C14_Witness ==
    \E i \in DOMAIN erd_buys :
        /\ erd_buys[i].shares > 1
        /\ erd_quantity[erd_buys[i].symbol] = erd_buys[i].shares
        /\ <<"MarketOrder", erd_buys[i].symbol, erd_buys[i].shares>> = erd_calls.orders[i]
        /\ RLess(RMul(ERD_max_position_size, RInt(erd_buys[i].value)),
                 RInt((erd_buys[i].shares + 1) * erd_buys[i].price))

\* a BUY sized with a confidence below 1, in each of the two regimes that buy
C14_WitnessTrending ==
    /\ erd_buys # <<>>
    /\ erd_current_regime[erd_buys[1].symbol] = "trending"
    /\ \E i \in DOMAIN erd_signals :
          erd_signals[i][2] = "BUY" /\ RLess(erd_signals[i][3], <<1, 1>>)

C14_WitnessChaotic ==
    /\ erd_buys # <<>>
    /\ erd_current_regime[erd_buys[1].symbol] = "chaotic"
    /\ \E i \in DOMAIN erd_signals :
          erd_signals[i][2] = "BUY" /\ RLess(erd_signals[i][3], <<1, 1>>)

-----------------------------------------------------------------------------
\* the step is an invocation of RebalancePortfolio
SRV_RebalanceInvoked ==
    /\ srv_calls'.by = "RebalancePortfolio"
    /\ srv_time' = srv_time
    /\ srv_warm' = srv_warm
\* the invocation reaches the frequency check and is rejected by it
SRV_RejectedByFrequency ==
    /\ ~srv_warm
    /\ Len(srv_rankings) >= SRV_top_n_sectors
    /\ srv_time - srv_last_rebalance < SRV_rebalance_days

(* C15: any two invocations of RebalancePortfolio that get past the
   frequency check are at least rebalance_days (5) whole days apart, and an
   invocation the check rejects changes neither last_rebalance nor any
   holding. *)
C15_MinimumDaysBetweenRebalances ==
    /\ [](\A i, j \in DOMAIN srv_passed :
             i < j => srv_passed[j] - srv_passed[i] >= 5)
    /\ [][(SRV_RebalanceInvoked /\ SRV_RejectedByFrequency) =>
             /\ srv_last_rebalance' = srv_last_rebalance
             /\ srv_invested' = srv_invested
             /\ srv_entry_prices' = srv_entry_prices
             /\ srv_calls'.orders = <<>>
             /\ srv_passed' = srv_passed]_vars

\* two invocations got past the check, and a later one, with positions
\* open, was rejected
C15_Witness ==
    /\ Len(srv_passed) = 2
    /\ srv_calls = [by |-> "RebalancePortfolio", orders |-> <<>>]
    /\ srv_last_rebalance = srv_passed[2]
    /\ \E t \in SRV_Sectors : srv_invested[t]

\* an invocation the check rejected: the last callback, one to four days
\* after a rebalance that opened positions
C15_WitnessRejected ==
    /\ srv_calls = [by |-> "RebalancePortfolio", orders |-> <<>>]
    /\ ~srv_warm
    /\ Len(srv_rankings) >= SRV_top_n_sectors
    /\ Len(srv_passed) = 1
    /\ srv_time - srv_last_rebalance \in 1..(SRV_rebalance_days - 1)
    /\ \E t \in SRV_Sectors : srv_invested[t]

-----------------------------------------------------------------------------
(* C16: for each symbol, any two EnterLong calls made by OnHourlyData are at
   least 3600 seconds apart in algorithm time, and last_signal_time[symbol]
   is updated only when EnterLong is called, to the time of the call. *)
C16_SignalsRateLimited ==
    /\ [](\A i, j \in DOMAIN vpin_entered :
             (i < j /\ vpin_entered[i].symbol = vpin_entered[j].symbol) =>
                 vpin_entered[j].time - vpin_entered[i].time >= 3600)
    /\ [][vpin_last_signal_time' # vpin_last_signal_time =>
             /\ Len(vpin_entered') = Len(vpin_entered) + 1
             /\ vpin_last_signal_time' =
                    DictSet(vpin_last_signal_time,
                            vpin_entered'[Len(vpin_entered')].symbol,
                            vpin_entered'[Len(vpin_entered')].time)]_vars

\* EnterLong has been called twice for a symbol
C16_Witness ==
    \E i, j \in DOMAIN vpin_entered :
        /\ i < j
        /\ vpin_entered[i].symbol = vpin_entered[j].symbol
        /\ vpin_last_signal_time[vpin_entered[j].symbol] = vpin_entered[j].time

\* OnHourlyData has run within the hour after a signal, on a flat position
\* in a toxic regime, without a second call
C16_WitnessLimited ==
    /\ vpin_calls = [by |-> "OnHourlyData", orders |-> <<>>]
    /\ Len(vpin_entered) = 1
    /\ vpin_time - vpin_entered[1].time = VPIN_TickSeconds
    /\ vpin_quantity[vpin_entered[1].symbol] = 0
    /\ vpin_toxicity_state[vpin_entered[1].symbol] = "toxic"
    /\ vpin_toxicity_direction[vpin_entered[1].symbol] = "LONG"

-----------------------------------------------------------------------------
\* CheckBreakouts has called EnterPosition in the last OnData
FDB_Entered == fdb_entered # <<>>

(* C17: a breakout entry is reachable: after some sequence of OnData and
   AnalyzeFractalDimension calls CheckBreakouts calls EnterPosition, LONG
   because the bar's close exceeds breakout_high * (1 + threshold) or HEDGE
   because it is below breakout_low * (1 - threshold).  Stated as an
   eventuality of the runs in which the host keeps delivering slices and
   firing the analysis: such a run comes to an EnterPosition call. *)
C17_BreakoutEntryReachable == <>FDB_Entered

\* the opposite, as a state predicate: no EnterPosition call has been made
\* and no position is tracked or held
FDB_NeverEnters ==
    /\ ~FDB_Entered
    /\ fdb_entry_prices = <<>>
    /\ fdb_calls.orders = <<>>
    /\ \A s \in FDB_Symbols : fdb_quantity[s] = 0

=============================================================================
